---- MODULE Spec2Model ----
(***************************************************************************)
(* digibib/folk: the staff directory's request handlers (src/api.go), the  *)
(* ql store they read and write one statement at a time, and the ftx       *)
(* search index that background goroutines keep in step with the Person    *)
(* table.                                                                  *)
(*                                                                         *)
(* One action is one atomic step of a handler: a store statement together  *)
(* with the local computation around it (validation before it; the go      *)
(* statement and the return after it). A handler that needs several store  *)
(* statements is several actions linked by the request's pc, so that other *)
(* requests and the index goroutines may run in between.                   *)
(***************************************************************************)
EXTENDS Integers, Sequences, FiniteSets, Bags, TLC

\* ------------------------------------------------------------------ bounds
\* The largest id() the store hands out: inserts stop after MaxID rows.
MaxID == 3
\* The largest id() handed out while requests are served concurrently.
MaxConcID == 2
\* The number of index goroutines alive at once.
MaxTasks == 2
\* The largest Department table the listing is applied to (besides the table
\* of the repository's tests).
MaxDepts == 3
\* The Person tables the listing is applied to have up to MaxPersons rows
\* (besides one table that is longer than MaxPersonsLimit).
MaxPersons == 3
\* The longest image list: uploads stop after MaxImages entries.
MaxImages == 3
\* The requests in flight at once.
Procs == {"r1", "r2"}

\* ------------------------------------------------------- program constants
\* ftx.NewNGramAnalyzer(1, 20)
NGramMin == 1
NGramMax == 20
StatusOK == 200
StatusCreated == 201
StatusNoContent == 204
StatusBadRequest == 400
StatusNotFound == 404
StatusInternalServerError == 500
\* nr of Persons to fetch if limit is unset
MaxPersonsLimit == 200

VARIABLES
    Department,  \* table Department: id() -> [Name, Parent]
    Person,      \* table Person: id() -> [Name, Dept, Email, Img, Role, Info, Phone]
    lastID,      \* the store's id() counter (ctx.LastInsertID of the last insert)
    index,       \* analyzer.Idx: the set of <<token, id>> postings
    tasks,       \* the bag of index goroutines that have not returned
    req,         \* per request slot: the handler's position and its locals
    res,         \* the response of the handler that returned last, until the
                 \* next request is entered
    mutated,     \* the person ids an update or delete statement has hit
    pre,         \* one-at-a-time serving: the tables as the running call found them
    imageFiles,  \* imageFiles.list: the names of the uploaded images
    files,       \* the files in data/public/img
    main         \* main: its position and the persons it has still to index

vars == <<Department, Person, lastID, index, tasks, req, res, mutated, pre,
          imageFiles, files, main>>

\* what the department and person handlers never touch
aside == <<imageFiles, files, main>>

\* ------------------------------------------------------------------- text
\* strings are sequences of one-character strings
RECURSIVE TrimLeft(_)
TrimLeft(s) ==
    IF s = <<>> THEN s
    ELSE IF Head(s) = " " THEN TrimLeft(Tail(s)) ELSE s

RECURSIVE TrimRight(_)
TrimRight(s) ==
    IF s = <<>> THEN s
    ELSE IF s[Len(s)] = " " THEN TrimRight(SubSeq(s, 1, Len(s) - 1)) ELSE s

\* the name compared with "" as it is
Untrimmed(s) == s

\* strings.TrimSpace
TrimSpace(s) == TrimRight(TrimLeft(s))

LowerChar(c) == IF c = "A" THEN "a" ELSE IF c = "B" THEN "b" ELSE c

\* strings.ToLower
ToLower(s) == [i \in 1..Len(s) |-> LowerChar(s[i])]

\* strings.Split(s, " "): the terms between the spaces, empty terms included
RECURSIVE SplitFrom(_, _)
SplitFrom(s, cur) ==
    IF s = <<>> THEN <<cur>>
    ELSE IF Head(s) = " " THEN <<cur>> \o SplitFrom(Tail(s), <<>>)
    ELSE SplitFrom(Tail(s), Append(cur, Head(s)))

Split(s) == SplitFrom(s, <<>>)

\* the byte of a character (the characters the names in use are made of)
Ord(c) ==
    CASE c = " " -> 32 [] c = "1" -> 49 [] c = "2" -> 50
      [] c = "A" -> 65 [] c = "B" -> 66 [] c = "C" -> 67
      [] c = "a" -> 97 [] c = "b" -> 98 [] c = "i" -> 105 [] c = "m" -> 109
      [] c = "n" -> 110 [] c = "s" -> 115 [] c = "u" -> 117

\* s <= t as ql's ORDER BY compares strings: byte by byte, a prefix first
RECURSIVE StrLeq(_, _)
StrLeq(s, t) ==
    IF s = <<>> THEN TRUE
    ELSE IF t = <<>> THEN FALSE
    ELSE IF Head(s) = Head(t) THEN StrLeq(Tail(s), Tail(t))
    ELSE Ord(Head(s)) < Ord(Head(t))

\* fmt.Sprintf("%v %v %v", p.Name, p.Role, p.Info)
PersonText(p) == p.Name \o <<" ">> \o p.Role \o <<" ">> \o p.Info

\* ------------------------------------------------------------ search index
\* The n-gram tokenizer: every substring of the case-folded text whose length
\* lies between NGramMin and NGramMax.
Tokens(text) ==
    LET s == ToLower(text)
    IN  {SubSeq(s, i, j) : <<i, j>> \in
            {w \in (1..Len(s)) \X (1..Len(s)) :
                /\ w[1] <= w[2]
                /\ w[2] - w[1] + 1 >= NGramMin
                /\ w[2] - w[1] + 1 <= NGramMax}}

\* analyzer.Index(text, id): record token -> id for every token of text
Index(idx, text, id) == idx \cup {<<t, id>> : t \in Tokens(text)}

\* analyzer.UnIndex(text, id): drop token -> id for every token of text
UnIndex(idx, text, id) == idx \ {<<t, id>> : t \in Tokens(text)}

\* analyzer.Idx.Query(index.NewQuery().Must(terms)): the ids every term posts
Must(idx, terms) ==
    {id \in {w[2] : w \in idx} : \A k \in 1..Len(terms) : <<terms[k], id>> \in idx}

\* the query answered with the ids some term posts
searchPersonsAnyTerm(q) ==
    LET terms == Split(ToLower(q))
    IN  {id \in {w[2] : w \in index} :
            \E k \in 1..Len(terms) : <<terms[k], id>> \in index}

\* searchPersons: Hits for the query string q
searchPersons(q) == Must(index, Split(ToLower(q)))

\* ----------------------------------------------------------------- values
NoRow == [none |-> TRUE]
Idle == [pc |-> "idle", id |-> 0, body |-> NoRow, oldp |-> NoRow]
\* main has reached server.ListenAndServe()
Serving == [pc |-> "serve", persons |-> <<>>]
NoRes == [op |-> "none", id |-> 0, status |-> 0, err |-> "", ent |-> NoRow, old |-> NoRow]

Result(op, id, status, err, ent, old) ==
    [op |-> op, id |-> id, status |-> status, err |-> err, ent |-> ent, old |-> old]

\* the handler returns r
Return(proc, r) ==
    /\ req' = [req EXCEPT ![proc] = Idle]
    /\ res' = r

\* the handler goes on to its next store statement
Goto(proc, pc, id, body, oldp) ==
    /\ req' = [req EXCEPT ![proc] = [pc |-> pc, id |-> id, body |-> body, oldp |-> oldp]]
    /\ res' = NoRes

\* the row qInsertPerson stores: VALUES($1, ..., $7, now()) fills the columns
\* in the order of the schema (Name, Dept, Email, Phone, Img, Role, Info) with
\* ql.MustMarshal(p), the fields in the order of type person (Name, Dept,
\* Email, Img, Role, Info, Phone)
InsertedRow(p) ==
    [Name |-> p.Name, Dept |-> p.Dept, Email |-> p.Email, Phone |-> p.Img,
     Img |-> p.Role, Role |-> p.Info, Info |-> p.Phone]

\* the row qUpdatePerson stores: SET Name = $1, ..., Phone = $7 by column name
PersonRow(p) ==
    [Name |-> p.Name, Dept |-> p.Dept, Email |-> p.Email, Img |-> p.Img,
     Role |-> p.Role, Info |-> p.Info, Phone |-> p.Phone]

\* ---------------------------------------------------------- store queries
\* the staff query selecting on id() instead of Dept
qDeptHasPersonsByID(id) == \E i \in DOMAIN Person : i = id

\* qDeptHasPersons: SELECT id() FROM Person WHERE Dept == $1 has a first row
qDeptHasPersons(id) == \E i \in DOMAIN Person : Person[i].Dept = id

\* the subdepartment check running the staff query a second time
qDeptHasDeptAsStaff(id) == \E i \in DOMAIN Person : Person[i].Dept = id

\* qDeptHasDept: SELECT id() FROM Department WHERE Parent == $1 has a first row
qDeptHasDept(id) == \E i \in DOMAIN Department : Department[i].Parent = id

\* qGetDept: SELECT ... FROM Department WHERE id() == $1 has a first row
qGetDept(id) == id \in DOMAIN Department

\* qGetPerson: SELECT ... FROM Person WHERE id() == $1 has a first row
qGetPerson(id) == id \in DOMAIN Person

\* the delete statement with id() <= $1 in place of id() == $1
WithoutUpTo(table, id) == [i \in {j \in DOMAIN table : j > id} |-> table[i]]

\* a table without the row id
Without(table, id) == [i \in DOMAIN table \ {id} |-> table[i]]

\* the query without its ORDER BY: rows in id() order
OrderByID(table) ==
    LET n == Cardinality(DOMAIN table)
    IN  {rows \in [1..n -> DOMAIN table] :
            \A k \in 1..n, l \in 1..n : k < l => rows[k] < rows[l]}

\* the orders in which SELECT ... ORDER BY Name ASC can hand out the rows of a
\* table: every row once, names ascending, rows of equal name in any order
OrderByName(table) ==
    LET n == Cardinality(DOMAIN table)
    IN  {rows \in [1..n -> DOMAIN table] :
            /\ \A k \in 1..n, l \in 1..n : k # l => rows[k] # rows[l]
            /\ \A k \in 1..(n - 1) :
                  StrLeq(table[rows[k]].Name, table[rows[k + 1]].Name)}

\* ------------------------------------------------------------ departments
\* the handler returning the body without dept.ID = ctx.LastInsertID
createDepartmentNoID(proc, dept) ==
    /\ req[proc].pc = "idle"
    /\ IF TrimSpace(dept.Name) = <<>>
       THEN /\ Return(proc, Result("createDepartment", 0, StatusBadRequest,
                                   "department must have a name", NoRow, NoRow))
            /\ UNCHANGED <<Department, lastID>>
       ELSE /\ lastID < MaxID
            /\ lastID' = lastID + 1
            /\ Department' = Department @@
                   (lastID' :> [Name |-> dept.Name, Parent |-> dept.Parent])
            /\ Return(proc, Result("createDepartment", 0, StatusCreated, "",
                   [ID |-> 0, Name |-> dept.Name, Parent |-> dept.Parent], NoRow))
    /\ UNCHANGED <<Person, index, tasks, mutated>>

\* POST /department
createDepartment(proc, dept) ==
    /\ req[proc].pc = "idle"
    /\ IF TrimSpace(dept.Name) = <<>>
       THEN /\ Return(proc, Result("createDepartment", 0, StatusBadRequest,
                                   "department must have a name", NoRow, NoRow))
            /\ UNCHANGED <<Department, lastID>>
       ELSE /\ lastID < MaxID
            /\ lastID' = lastID + 1
            /\ Department' = Department @@
                   (lastID' :> [Name |-> dept.Name, Parent |-> dept.Parent])
            /\ Return(proc, Result("createDepartment", lastID', StatusCreated, "",
                   [ID |-> lastID', Name |-> dept.Name, Parent |-> dept.Parent], NoRow))
    /\ UNCHANGED <<Person, index, tasks, mutated>>

\* the handler looking for the department before it looks for staff
deleteDepartment_ExistenceFirst(proc, id) ==
    /\ req[proc].pc = "idle"
    /\ IF ~qGetDept(id)
       THEN Return(proc, Result("deleteDepartment", id, StatusNotFound,
                                "department does not exist", NoRow, NoRow))
       ELSE IF qDeptHasPersons(id)
       THEN Return(proc, Result("deleteDepartment", id, StatusBadRequest,
                                "cannot delete department with associated staff",
                                NoRow, NoRow))
       ELSE Goto(proc, "dd_sub", id, NoRow, NoRow)
    /\ UNCHANGED <<Department, Person, lastID, index, tasks, mutated>>

\* DELETE /department/{id}: the staff check
deleteDepartment_qDeptHasPersons(proc, id) ==
    /\ req[proc].pc = "idle"
    /\ IF qDeptHasPersons(id)
       THEN Return(proc, Result("deleteDepartment", id, StatusBadRequest,
                                "cannot delete department with associated staff",
                                NoRow, NoRow))
       ELSE Goto(proc, "dd_sub", id, NoRow, NoRow)
    /\ UNCHANGED <<Department, Person, lastID, index, tasks, mutated>>

\* DELETE /department/{id}: the subdepartment check
deleteDepartment_qDeptHasDept(proc) ==
    /\ req[proc].pc = "dd_sub"
    /\ IF qDeptHasDept(req[proc].id)
       THEN Return(proc, Result("deleteDepartment", req[proc].id, StatusBadRequest,
                                "cannot delete department with subdepartments",
                                NoRow, NoRow))
       ELSE Goto(proc, "dd_del", req[proc].id, NoRow, NoRow)
    /\ UNCHANGED <<Department, Person, lastID, index, tasks, mutated>>

\* the delete statement without the ctx.RowsAffected test
deleteDepartment_qDeleteDeptUnchecked(proc) ==
    /\ req[proc].pc = "dd_del"
    /\ Department' = Without(Department, req[proc].id)
    /\ Return(proc, Result("deleteDepartment", req[proc].id, StatusNoContent, "",
                           NoRow, NoRow))
    /\ UNCHANGED <<Person, lastID, index, tasks, mutated>>

\* DELETE /department/{id}: the delete statement and ctx.RowsAffected
deleteDepartment_qDeleteDept(proc) ==
    /\ req[proc].pc = "dd_del"
    /\ LET id == req[proc].id
       IN  IF id \in DOMAIN Department
           THEN /\ Department' = Without(Department, id)
                /\ Return(proc, Result("deleteDepartment", id, StatusNoContent, "",
                                       NoRow, NoRow))
           ELSE /\ UNCHANGED Department
                /\ Return(proc, Result("deleteDepartment", id, StatusNotFound,
                                       "department does not exist", NoRow, NoRow))
    /\ UNCHANGED <<Person, lastID, index, tasks, mutated>>

\* the handler returning the body without dept.ID = int64(id)
updateDepartmentBodyID(proc, id, dept) ==
    /\ req[proc].pc = "idle"
    /\ IF TrimSpace(dept.Name) = <<>>
       THEN /\ Return(proc, Result("updateDepartment", id, StatusBadRequest,
                                   "department must have a name", NoRow, NoRow))
            /\ UNCHANGED Department
       ELSE /\ Department' =
                   [i \in DOMAIN Department |->
                       IF i = id THEN [Name |-> dept.Name, Parent |-> dept.Parent]
                       ELSE Department[i]]
            /\ Return(proc, Result("updateDepartment", id, StatusOK, "",
                   [ID |-> dept.ID, Name |-> dept.Name, Parent |-> dept.Parent],
                   NoRow))
    /\ UNCHANGED <<Person, lastID, index, tasks, mutated>>

\* the update storing the row also when the table has none with this id
updateDepartmentUpsert(proc, id, dept) ==
    /\ req[proc].pc = "idle"
    /\ IF TrimSpace(dept.Name) = <<>>
       THEN /\ Return(proc, Result("updateDepartment", id, StatusBadRequest,
                                   "department must have a name", NoRow, NoRow))
            /\ UNCHANGED Department
       ELSE /\ Department' =
                   [i \in DOMAIN Department \cup {id} |->
                       IF i = id THEN [Name |-> dept.Name, Parent |-> dept.Parent]
                       ELSE Department[i]]
            /\ Return(proc, Result("updateDepartment", id, StatusOK, "",
                   [ID |-> id, Name |-> dept.Name, Parent |-> dept.Parent], NoRow))
    /\ UNCHANGED <<Person, lastID, index, tasks, mutated>>

\* PUT /department/{id}
updateDepartment(proc, id, dept) ==
    /\ req[proc].pc = "idle"
    /\ IF TrimSpace(dept.Name) = <<>>
       THEN /\ Return(proc, Result("updateDepartment", id, StatusBadRequest,
                                   "department must have a name", NoRow, NoRow))
            /\ UNCHANGED Department
       ELSE /\ Department' =
                   [i \in DOMAIN Department |->
                       IF i = id THEN [Name |-> dept.Name, Parent |-> dept.Parent]
                       ELSE Department[i]]
            /\ Return(proc, Result("updateDepartment", id, StatusOK, "",
                   [ID |-> id, Name |-> dept.Name, Parent |-> dept.Parent], NoRow))
    /\ UNCHANGED <<Person, lastID, index, tasks, mutated>>

\* ql.Unmarshal(d, data): the department entity of row i
DeptEntity(table, i) ==
    [ID |-> i, Name |-> table[i].Name, Parent |-> table[i].Parent]

\* sortedDepts[parent]: the rows with that Parent, in the order they were read
sortedDepts(rows, table, parent) ==
    SelectSeq(rows, LAMBDA i : table[i].Parent = parent)

\* the loop over sortedDepts[0]: every main followed by sortedDepts[main.ID]
RECURSIVE departments(_, _, _)
departments(mains, rows, table) ==
    IF mains = <<>> THEN <<>>
    ELSE <<Head(mains)>> \o sortedDepts(rows, table, Head(mains))
            \o departments(Tail(mains), rows, table)

\* the list getAllDepartments returns when the query hands out rows
DeptList(rows, table) ==
    LET ids == departments(sortedDepts(rows, table, 0), rows, table)
    IN  [k \in 1..Len(ids) |-> DeptEntity(table, ids[k])]

\* GET /department
getAllDepartments(proc) ==
    /\ req[proc].pc = "idle"
    /\ \E rows \in OrderByName(Department) :
          Return(proc, Result("getAllDepartments", 0, StatusOK, "",
                              [list |-> DeptList(rows, Department)], NoRow))
    /\ UNCHANGED <<Department, Person, lastID, index, tasks, mutated>>

\* GET /department/{id}
getDepartment(proc, id) ==
    /\ req[proc].pc = "idle"
    /\ IF ~qGetDept(id)
       THEN Return(proc, Result("getDepartment", id, StatusNotFound,
                                "department not found", NoRow, NoRow))
       ELSE Return(proc, Result("getDepartment", id, StatusOK, "",
                                DeptEntity(Department, id), NoRow))
    /\ UNCHANGED <<Department, Person, lastID, index, tasks, mutated>>

\* -------------------------------------------------------- index goroutines
IndexOp(op, text) == [op |-> op, text |-> text]

Task(kind, id, ops) == [kind |-> kind, id |-> id, ops |-> ops, pc |-> 0]

\* go func() { ... }(): the goroutine exists; it runs whenever it is scheduled
Spawn(t) ==
    /\ BagCardinality(tasks) < MaxTasks
    /\ tasks' = tasks (+) SetToBag({t})

\* the create goroutine indexing the role and info without the name
createPersonOpsNoName(p) == <<IndexOp("Index", p.Role \o <<" ">> \o p.Info)>>

\* createPerson's goroutine: analyzer.Index(new text, id)
createPersonOps(p) == <<IndexOp("Index", PersonText(p))>>

\* the update goroutine with its two calls in the other order
updatePersonOpsSwapped(oldp, p) ==
    <<IndexOp("Index", PersonText(p)), IndexOp("UnIndex", PersonText(oldp))>>

\* updatePerson's goroutine: analyzer.UnIndex(old text, id), then
\* analyzer.Index(new text, id)
updatePersonOps(oldp, p) ==
    <<IndexOp("UnIndex", PersonText(oldp)), IndexOp("Index", PersonText(p))>>

\* deletePerson's goroutine: analyzer.UnIndex(old text, id)
deletePersonOps(oldp) == <<IndexOp("UnIndex", PersonText(oldp))>>

\* the index after one analyzer call
Apply(idx, o, id) ==
    IF o.op = "Index" THEN Index(idx, o.text, id) ELSE UnIndex(idx, o.text, id)

\* the goroutine t after its next call; it returns after its last one
Advance(t) ==
    IF t.pc + 1 = Len(t.ops) THEN EmptyBag
    ELSE SetToBag({[t EXCEPT !.pc = @ + 1]})

\* a goroutine makes its next analyzer call (the index is internally locked:
\* one call is one step)
RunTask(t) ==
    /\ t \in BagToSet(tasks)
    /\ index' = Apply(index, t.ops[t.pc + 1], t.id)
    /\ tasks' = (tasks (-) SetToBag({t})) (+) Advance(t)
    /\ UNCHANGED <<Department, Person, lastID, req, res, mutated>>

\* ----------------------------------------------------------------- persons
\* the handler testing p.Dept == 0 before the name
createPerson_qGetDeptDeptFirst(proc, p) ==
    /\ req[proc].pc = "idle"
    /\ IF p.Dept = 0
       THEN Return(proc, Result("createPerson", 0, StatusBadRequest,
                                "person must belong to a department", NoRow, NoRow))
       ELSE IF TrimSpace(p.Name) = <<>>
       THEN Return(proc, Result("createPerson", 0, StatusBadRequest,
                                "person must have a name", NoRow, NoRow))
       ELSE IF ~qGetDept(p.Dept)
       THEN Return(proc, Result("createPerson", 0, StatusNotFound,
                                "department does not exist", NoRow, NoRow))
       ELSE Goto(proc, "cp_ins", 0, p, NoRow)
    /\ UNCHANGED <<Department, Person, lastID, index, tasks, mutated>>

\* the handler inserting without the department lookup
createPerson_qGetDeptUnchecked(proc, p) ==
    /\ req[proc].pc = "idle"
    /\ IF TrimSpace(p.Name) = <<>>
       THEN Return(proc, Result("createPerson", 0, StatusBadRequest,
                                "person must have a name", NoRow, NoRow))
       ELSE IF p.Dept = 0
       THEN Return(proc, Result("createPerson", 0, StatusBadRequest,
                                "person must belong to a department", NoRow, NoRow))
       ELSE Goto(proc, "cp_ins", 0, p, NoRow)
    /\ UNCHANGED <<Department, Person, lastID, index, tasks, mutated>>

\* POST /person: validation and the department lookup
createPerson_qGetDept(proc, p) ==
    /\ req[proc].pc = "idle"
    /\ IF TrimSpace(p.Name) = <<>>
       THEN Return(proc, Result("createPerson", 0, StatusBadRequest,
                                "person must have a name", NoRow, NoRow))
       ELSE IF p.Dept = 0
       THEN Return(proc, Result("createPerson", 0, StatusBadRequest,
                                "person must belong to a department", NoRow, NoRow))
       ELSE IF ~qGetDept(p.Dept)
       THEN Return(proc, Result("createPerson", 0, StatusNotFound,
                                "department does not exist", NoRow, NoRow))
       ELSE Goto(proc, "cp_ins", 0, p, NoRow)
    /\ UNCHANGED <<Department, Person, lastID, index, tasks, mutated>>

\* POST /person: the insert statement, p.ID = ctx.LastInsertID, the index
\* goroutine, the return
createPerson_qInsertPerson(proc) ==
    /\ req[proc].pc = "cp_ins"
    /\ lastID < MaxID
    /\ lastID' = lastID + 1
    /\ Person' = Person @@ (lastID' :> InsertedRow(req[proc].body))
    /\ Spawn(Task("create", lastID', createPersonOps(req[proc].body)))
    /\ Return(proc, Result("createPerson", lastID', StatusCreated, "",
                           [req[proc].body EXCEPT !.ID = lastID'], NoRow))
    /\ UNCHANGED <<Department, index, mutated>>

\* the handler going on to the department lookup without the old record
updatePerson_qGetPersonUnread(proc, id, p) ==
    /\ req[proc].pc = "idle"
    /\ IF p.Dept = 0
       THEN Return(proc, Result("updatePerson", id, StatusBadRequest,
                                "person must belong to a department", NoRow, NoRow))
       ELSE IF TrimSpace(p.Name) = <<>>
       THEN Return(proc, Result("updatePerson", id, StatusBadRequest,
                                "person must have a name", NoRow, NoRow))
       ELSE Goto(proc, "up_dept", id, p, IF qGetPerson(id) THEN Person[id] ELSE p)
    /\ UNCHANGED <<Department, Person, lastID, index, tasks, mutated>>

\* PUT /person/{id}: validation and the read of the old record
updatePerson_qGetPerson(proc, id, p) ==
    /\ req[proc].pc = "idle"
    /\ IF p.Dept = 0
       THEN Return(proc, Result("updatePerson", id, StatusBadRequest,
                                "person must belong to a department", NoRow, NoRow))
       ELSE IF TrimSpace(p.Name) = <<>>
       THEN Return(proc, Result("updatePerson", id, StatusBadRequest,
                                "person must have a name", NoRow, NoRow))
       ELSE IF ~qGetPerson(id)
       THEN Return(proc, Result("updatePerson", id, StatusNotFound,
                                "person not found", NoRow, NoRow))
       ELSE Goto(proc, "up_dept", id, p, Person[id])
    /\ UNCHANGED <<Department, Person, lastID, index, tasks, mutated>>

\* PUT /person/{id}: the department lookup
updatePerson_qGetDept(proc) ==
    /\ req[proc].pc = "up_dept"
    /\ IF ~qGetDept(req[proc].body.Dept)
       THEN Return(proc, Result("updatePerson", req[proc].id, StatusNotFound,
                                "department does not exist", NoRow, NoRow))
       ELSE Goto(proc, "up_upd", req[proc].id, req[proc].body, req[proc].oldp)
    /\ UNCHANGED <<Department, Person, lastID, index, tasks, mutated>>

\* PUT /person/{id}: the update statement (ctx.RowsAffected is not read), the
\* index goroutine, the return of p. The result's old is the row the
\* statement overwrote, NoRow if it matched none.
updatePerson_qUpdatePerson(proc) ==
    /\ req[proc].pc = "up_upd"
    /\ LET id == req[proc].id
       IN  /\ Person' = [i \in DOMAIN Person |->
                            IF i = id THEN PersonRow(req[proc].body) ELSE Person[i]]
           /\ mutated' = mutated \cup {id}
           /\ Spawn(Task("update", id, updatePersonOps(req[proc].oldp, req[proc].body)))
           /\ Return(proc, Result("updatePerson", id, StatusOK, "", req[proc].body,
                                  IF id \in DOMAIN Person THEN Person[id] ELSE NoRow))
    /\ UNCHANGED <<Department, lastID, index>>

\* the handler answering a missing person like a deleted one
deletePerson_qGetPersonLenient(proc, id) ==
    /\ req[proc].pc = "idle"
    /\ IF ~qGetPerson(id)
       THEN Return(proc, Result("deletePerson", id, StatusNoContent, "", NoRow, NoRow))
       ELSE Goto(proc, "dp_del", id, NoRow, Person[id])
    /\ UNCHANGED <<Department, Person, lastID, index, tasks, mutated>>

\* DELETE /person/{id}: the read of the old record
deletePerson_qGetPerson(proc, id) ==
    /\ req[proc].pc = "idle"
    /\ IF ~qGetPerson(id)
       THEN Return(proc, Result("deletePerson", id, StatusNotFound,
                                "person not found", NoRow, NoRow))
       ELSE Goto(proc, "dp_del", id, NoRow, Person[id])
    /\ UNCHANGED <<Department, Person, lastID, index, tasks, mutated>>

\* the delete statement without the ctx.RowsAffected test
deletePerson_qDeletePersonUnchecked(proc) ==
    /\ req[proc].pc = "dp_del"
    /\ Person' = Without(Person, req[proc].id)
    /\ mutated' = mutated \cup {req[proc].id}
    /\ Spawn(Task("delete", req[proc].id, deletePersonOps(req[proc].oldp)))
    /\ Return(proc, Result("deletePerson", req[proc].id, StatusNoContent, "",
                           NoRow, NoRow))
    /\ UNCHANGED <<Department, lastID, index>>

\* DELETE /person/{id}: the delete statement and ctx.RowsAffected, the unindex
\* goroutine, the return
deletePerson_qDeletePerson(proc) ==
    /\ req[proc].pc = "dp_del"
    /\ LET id == req[proc].id
       IN  IF id \in DOMAIN Person
           THEN /\ Person' = Without(Person, id)
                /\ mutated' = mutated \cup {id}
                /\ Spawn(Task("delete", id, deletePersonOps(req[proc].oldp)))
                /\ Return(proc, Result("deletePerson", id, StatusNoContent, "",
                                       NoRow, Person[id]))
           ELSE /\ UNCHANGED <<Person, tasks, mutated>>
                /\ Return(proc, Result("deletePerson", id, StatusNotFound,
                                       "person does not exist", NoRow, NoRow))
    /\ UNCHANGED <<Department, lastID, index>>

\* ql.Unmarshal(&p, row): the person entity of row i
PersonEntity(table, i) ==
    [ID |-> i, Name |-> table[i].Name, Dept |-> table[i].Dept,
     Email |-> table[i].Email, Img |-> table[i].Img, Role |-> table[i].Role,
     Info |-> table[i].Info, Phone |-> table[i].Phone]

\* the handler answering from the store only for the ids the index posts
getPersonIfIndexed(proc, id) ==
    /\ req[proc].pc = "idle"
    /\ IF ~qGetPerson(id) \/ id \notin {w[2] : w \in index}
       THEN Return(proc, Result("getPerson", id, StatusNotFound,
                                "person not found", NoRow, NoRow))
       ELSE Return(proc, Result("getPerson", id, StatusOK, "",
                                PersonEntity(Person, id), NoRow))
    /\ UNCHANGED <<Department, Person, lastID, index, tasks, mutated>>

\* GET /person/{id}
getPerson(proc, id) ==
    /\ req[proc].pc = "idle"
    /\ IF ~qGetPerson(id)
       THEN Return(proc, Result("getPerson", id, StatusNotFound,
                                "person not found", NoRow, NoRow))
       ELSE Return(proc, Result("getPerson", id, StatusOK, "",
                                PersonEntity(Person, id), NoRow))
    /\ UNCHANGED <<Department, Person, lastID, index, tasks, mutated>>

\* ------------------------------------------------------------------ images
\* a query that finds no image in use
qImageUsedNever(filename) == FALSE

\* qImageUsed: SELECT id() FROM Person WHERE Img == $1 has a row
qImageUsed(filename) == \E i \in DOMAIN Person : Person[i].Img = filename

\* the loop over imageFiles.list: the list without its first entry equal to
\* filename
RECURSIVE RemoveFirst(_, _)
RemoveFirst(list, filename) ==
    IF list = <<>> THEN list
    ELSE IF Head(list) = filename THEN Tail(list)
    ELSE <<Head(list)>> \o RemoveFirst(Tail(list), filename)

\* a slice of the array of imageFiles.list as append(list[:i], list[i+1:]...)
\* leaves it, i the first entry of list equal to filename: the entries after i
\* are copied one cell down, the last cell keeps its value
Shifted(view, list, filename) ==
    IF ~\E i \in 1..Len(list) : list[i] = filename THEN view
    ELSE LET i == CHOOSE k \in 1..Len(list) :
                     list[k] = filename /\ \A j \in 1..(k - 1) : list[j] # filename
         IN  [j \in 1..Len(view) |->
                 IF i <= j /\ j <= Len(list) - 1 THEN list[j + 1] ELSE view[j]]

\* a slice of the array of imageFiles.list as append(list, filename) leaves it
\* when the array has room: the cell after the list is written
Written(view, list, filename) ==
    [j \in 1..Len(view) |-> IF j = Len(list) + 1 THEN filename ELSE view[j]]

\* the request r as a write to imageFiles.list leaves it: a slice that getImages
\* returned and that is not yet encoded shares the array of the list unless
\* an append has allocated a new one (shared); lists are the values the list
\* has had since getImages took the read lock
Aliased(r, view, shared, list) ==
    IF r.pc # "getImages_Encode" THEN r
    ELSE [r EXCEPT !.body = IF r.body.shared
                            THEN [list |-> view, shared |-> shared]
                            ELSE r.body,
                   !.oldp = [lists |-> r.oldp.lists \cup {list}]]

\* GET /images: imageFiles.RLock(); return imageFiles.list (the slice, not a
\* copy); imageFiles.RUnlock()
getImages(proc) ==
    /\ req[proc].pc = "idle"
    /\ Goto(proc, "getImages_Encode", 0, [list |-> imageFiles, shared |-> TRUE],
            [lists |-> {imageFiles}])
    /\ UNCHANGED <<Department, Person, lastID, index, tasks, mutated, imageFiles, files>>

\* the response of GET /images is encoded from the slice the handler returned
getImages_Encode(proc) ==
    /\ req[proc].pc = "getImages_Encode"
    /\ Return(proc, Result("getImages", 0, StatusOK, "", [list |-> req[proc].body.list],
                           req[proc].oldp))
    /\ UNCHANGED <<Department, Person, lastID, index, tasks, mutated, imageFiles, files>>

\* DELETE /image/{filename}: up to the qImageUsed statement and its outcome
deleteImage_qImageUsed(proc, filename) ==
    /\ req[proc].pc = "idle"
    /\ IF filename = <<>>
       THEN Return(proc, Result("deleteImage", 0, StatusBadRequest,
                                "missing filename parameter", NoRow, NoRow))
       ELSE IF qImageUsed(filename)
       THEN Return(proc, Result("deleteImage", 0, StatusBadRequest,
                                "image is in use; cannot delete", NoRow, NoRow))
       ELSE Goto(proc, "deleteImage_Remove", 0, [filename |-> filename], NoRow)
    /\ UNCHANGED <<Department, Person, lastID, index, tasks, mutated, imageFiles, files>>

\* os.Remove("data/public/img/" + filename)
deleteImage_Remove(proc) ==
    /\ req[proc].pc = "deleteImage_Remove"
    /\ IF req[proc].body.filename \notin files
       THEN /\ Return(proc, Result("deleteImage", 0, StatusInternalServerError,
                                   "server error: failed to delete file", NoRow, NoRow))
            /\ UNCHANGED files
       ELSE /\ files' = files \ {req[proc].body.filename}
            /\ Goto(proc, "deleteImage_Unlist", 0, req[proc].body, NoRow)
    /\ UNCHANGED <<Department, Person, lastID, index, tasks, mutated, imageFiles>>

\* imageFiles.Lock(); the loop; imageFiles.Unlock(); return
deleteImage_Unlist(proc) ==
    /\ req[proc].pc = "deleteImage_Unlist"
    /\ imageFiles' = RemoveFirst(imageFiles, req[proc].body.filename)
    /\ req' = [p \in Procs |->
                 IF p = proc THEN Idle
                 ELSE Aliased(req[p], Shifted(req[p].body.list, imageFiles,
                                              req[proc].body.filename),
                              TRUE, imageFiles')]
    /\ res' = Result("deleteImage", 0, StatusNoContent, "", NoRow, NoRow)
    /\ UNCHANGED <<Department, Person, lastID, index, tasks, mutated, files>>

\* POST /upload: r.ParseMultipartForm; fileHeaders are the files of the form in
\* the order the loops visit them. Without a file the loops do nothing. (body:
\* filename is the variable of the handler, written are the files the request
\* has stored.)
uploadHandler_Parse(proc, fileHeaders) ==
    /\ req[proc].pc = "idle"
    /\ Goto(proc, IF fileHeaders = <<>> THEN "uploadHandler_Append" ELSE "uploadHandler_Stat",
            0, [filename |-> <<>>, fileHeaders |-> fileHeaders, written |-> <<>>], NoRow)
    /\ UNCHANGED <<Department, Person, lastID, index, tasks, mutated, imageFiles, files>>

\* the next file of the form: filename = fileHeader.Filename; os.Stat(path)
uploadHandler_Stat(proc) ==
    /\ req[proc].pc = "uploadHandler_Stat"
    /\ LET filename == Head(req[proc].body.fileHeaders)
       IN  IF filename \in files
           THEN Return(proc, Result("uploadHandler", 0, StatusBadRequest,
                                    "an image with same name allready exists", NoRow,
                                    [written |-> req[proc].body.written]))
           ELSE Goto(proc, "uploadHandler_Write", 0,
                     [req[proc].body EXCEPT !.filename = filename], NoRow)
    /\ UNCHANGED <<Department, Person, lastID, index, tasks, mutated, imageFiles, files>>

\* ioutil.WriteFile(path, buf, os.ModePerm); on to the next file, or out of
\* the loops
uploadHandler_Write(proc) ==
    /\ req[proc].pc = "uploadHandler_Write"
    /\ files' = files \cup {req[proc].body.filename}
    /\ LET rest == Tail(req[proc].body.fileHeaders)
       IN  Goto(proc, IF rest = <<>> THEN "uploadHandler_Append" ELSE "uploadHandler_Stat",
                0, [req[proc].body EXCEPT !.fileHeaders = rest,
                                          !.written = Append(@, req[proc].body.filename)],
                NoRow)
    /\ UNCHANGED <<Department, Person, lastID, index, tasks, mutated, imageFiles>>

\* imageFiles.Lock(); append(imageFiles.list, filename); imageFiles.Unlock();
\* the handler returns
\* (append writes into the array of the list when it has room, which it has
\* when a slice of it is longer than the list, and allocates a new array
\* otherwise; the capacity is the Go runtime's choice)
uploadHandler_Append(proc) ==
    /\ req[proc].pc = "uploadHandler_Append"
    /\ Len(imageFiles) < MaxImages
    /\ imageFiles' = Append(imageFiles, req[proc].body.filename)
    /\ \E room \in BOOLEAN :
          /\ (\E p \in Procs : /\ req[p].pc = "getImages_Encode"
                                /\ req[p].body.shared
                                /\ Len(req[p].body.list) > Len(imageFiles)) => room
          /\ req' = [p \in Procs |->
                       IF p = proc THEN Idle
                       ELSE Aliased(req[p],
                                    IF room THEN Written(req[p].body.list, imageFiles,
                                                         req[proc].body.filename)
                                    ELSE req[p].body.list,
                                    room, imageFiles')]
    /\ res' = Result("uploadHandler", 0, StatusOK, "", NoRow,
                     [written |-> req[proc].body.written])
    /\ UNCHANGED <<Department, Person, lastID, index, tasks, mutated, files>>

\* ------------------------------------------------------------------ search
\* hitsSet.All(): the members of the set, each once
RECURSIVE AllIn(_, _, _)
AllIn(set, lo, hi) ==
    IF lo > hi THEN <<>>
    ELSE IF lo = hi THEN (IF lo \in set THEN <<lo>> ELSE <<>>)
    ELSE LET mid == (lo + hi) \div 2
         IN  AllIn(set, lo, mid) \o AllIn(set, mid + 1, hi)

All(set) ==
    IF set = {} THEN <<>>
    ELSE AllIn(set, CHOOSE x \in set : \A y \in set : x <= y,
                    CHOOSE x \in set : \A y \in set : y <= x)

\* GET /search
searchPersons_Query(proc, q) ==
    /\ req[proc].pc = "idle"
    /\ LET hitsSet == searchPersons(q)
       IN  Return(proc, Result("searchPersons", 0, StatusOK, "",
                  [Count |-> Cardinality(hitsSet), Hits |-> All(hitsSet)],
                  [q |-> q]))
    /\ UNCHANGED <<Department, Person, lastID, index, tasks, mutated, imageFiles, files>>

\* ------------------------------------------------------------- person list
Digits == {"0", "1", "2", "3", "4", "5", "6", "7", "8", "9"}

DigitVal(c) ==
    CASE c = "0" -> 0 [] c = "1" -> 1 [] c = "2" -> 2 [] c = "3" -> 3 [] c = "4" -> 4
      [] c = "5" -> 5 [] c = "6" -> 6 [] c = "7" -> 7 [] c = "8" -> 8 [] c = "9" -> 9

\* strconv.Atoi of a string without sign: the number, or an error
RECURSIVE AtoiFrom(_, _)
AtoiFrom(s, acc) ==
    IF s = <<>> THEN [err |-> FALSE, n |-> acc]
    ELSE IF Head(s) \in Digits THEN AtoiFrom(Tail(s), 10 * acc + DigitVal(Head(s)))
    ELSE [err |-> TRUE, n |-> 0]

Atoi(s) == IF s = <<>> THEN [err |-> TRUE, n |-> 0] ELSE AtoiFrom(s, 0)

\* the ids of a table that lie in lo..hi, greatest first
RECURSIVE DescendingIn(_, _, _)
DescendingIn(ids, lo, hi) ==
    IF lo > hi THEN <<>>
    ELSE IF lo = hi THEN (IF lo \in ids THEN <<lo>> ELSE <<>>)
    ELSE LET mid == (lo + hi) \div 2
         IN  DescendingIn(ids, mid + 1, hi) \o DescendingIn(ids, lo, mid)

\* the ids of a table, greatest first (id() is never above the store's counter)
Descending(ids) == DescendingIn(ids, 1, lastID)

\* the rows from the first one on, whatever the offset
qGetAllPersonsNoOffset(offset, limit) ==
    LET rows == Descending(DOMAIN Person)
        last == IF limit < Len(rows) THEN limit ELSE Len(rows)
    IN  SubSeq(rows, 1, last)

\* qGetAllPersons: SELECT ... FROM Person ORDER BY id() DESC LIMIT $2 OFFSET $1
qGetAllPersons(offset, limit) ==
    LET rows == Descending(DOMAIN Person)
        last == IF offset + limit < Len(rows) THEN offset + limit ELSE Len(rows)
    IN  SubSeq(rows, offset + 1, last)

\* the sequence with the entries at i and j exchanged
Swap(ps, i, j) == [ps EXCEPT ![i] = ps[j], ![j] = ps[i]]

\* a shuffle that exchanges with the first entry or with the one before
RECURSIVE shuffleNearFrom(_, _, _)
shuffleNearFrom(ps, rs, i) ==
    IF i >= Len(ps) THEN ps
    ELSE shuffleNearFrom(Swap(ps, IF rs[i] = 0 THEN 1 ELSE i, i + 1), rs, i + 1)

\* the loop of shufflePersons from the index i (counted from 0) on, rs[i] being
\* the value of rand.Intn(i + 1)
RECURSIVE shufflePersonsFrom(_, _, _)
shufflePersonsFrom(ps, rs, i) ==
    IF i >= Len(ps) THEN ps
    ELSE shufflePersonsFrom(Swap(ps, rs[i] + 1, i + 1), rs, i + 1)

shufflePersons(ps, rs) == shufflePersonsFrom(ps, rs, 1)

\* the values rand.Intn can return in a shuffle of n persons
Rands(n) == {rs \in [1..(n - 1) -> 0..(n - 1)] : \A i \in 1..(n - 1) : rs[i] <= i}

\* GET /person?offset=&limit=&order=
getAllPersons(proc, offsetStr, limitStr, order) ==
    /\ req[proc].pc = "idle"
    /\ LET query == [offset |-> offsetStr, limit |-> limitStr, order |-> order]
           offset == IF offsetStr = <<>> THEN 0 ELSE Atoi(offsetStr).n
           limit == IF limitStr = <<>> THEN MaxPersonsLimit ELSE Atoi(limitStr).n
       IN  IF offsetStr # <<>> /\ Atoi(offsetStr).err
           THEN Return(proc, Result("getAllPersons", 0, StatusBadRequest,
                       "offset parameter must be an integer", NoRow, query))
           ELSE IF limitStr # <<>> /\ Atoi(limitStr).err
           THEN Return(proc, Result("getAllPersons", 0, StatusBadRequest,
                       "limit parameter must be an integer", NoRow, query))
           ELSE LET rows == qGetAllPersons(offset, limit)
                    persons == [k \in 1..Len(rows) |-> PersonEntity(Person, rows[k])]
                IN  IF order = "random"
                    THEN \E rs \in Rands(Len(persons)) :
                            Return(proc, Result("getAllPersons", 0, StatusOK, "",
                                   [list |-> shufflePersons(persons, rs)], query))
                    ELSE Return(proc, Result("getAllPersons", 0, StatusOK, "",
                                   [list |-> persons], query))
    /\ UNCHANGED <<Department, Person, lastID, index, tasks, mutated, imageFiles, files>>

\* ---------------------------------------------------------- store failures
\* db.Execute (or FirstRow, Unmarshal, rs.Do) returns an error: the handler
\* logs it and returns 500 with a fixed message
Fails(proc, op, id, err) ==
    /\ Return(proc, Result(op, id, StatusInternalServerError, err, NoRow, NoRow))
    /\ UNCHANGED <<Department, Person, lastID, index, tasks, mutated, imageFiles, files>>

getDepartment_fails(proc, id) ==
    /\ req[proc].pc = "idle"
    /\ Fails(proc, "getDepartment", id, "server error: database query failed")

getAllDepartments_fails(proc) ==
    /\ req[proc].pc = "idle"
    /\ Fails(proc, "getAllDepartments", 0, "server error: database query failed")

createDepartment_fails(proc, dept) ==
    /\ req[proc].pc = "idle"
    /\ TrimSpace(dept.Name) # <<>>
    /\ Fails(proc, "createDepartment", 0, "server error: database insert failed")

deleteDepartment_qDeptHasPersons_fails(proc, id) ==
    /\ req[proc].pc = "idle"
    /\ Fails(proc, "deleteDepartment", id, "server error: database query failed")

deleteDepartment_qDeptHasDept_fails(proc) ==
    /\ req[proc].pc = "dd_sub"
    /\ Fails(proc, "deleteDepartment", req[proc].id, "server error: database query failed")

deleteDepartment_qDeleteDept_fails(proc) ==
    /\ req[proc].pc = "dd_del"
    /\ Fails(proc, "deleteDepartment", req[proc].id, "server error: database query failed")

updateDepartment_fails(proc, id, dept) ==
    /\ req[proc].pc = "idle"
    /\ TrimSpace(dept.Name) # <<>>
    /\ Fails(proc, "updateDepartment", id, "server error: database query failed")

getPerson_fails(proc, id) ==
    /\ req[proc].pc = "idle"
    /\ Fails(proc, "getPerson", id, "server error: database query failed")

createPerson_qGetDept_fails(proc, p) ==
    /\ req[proc].pc = "idle"
    /\ TrimSpace(p.Name) # <<>>
    /\ p.Dept # 0
    /\ Fails(proc, "createPerson", 0, "server error: database query failed")

createPerson_qInsertPerson_fails(proc) ==
    /\ req[proc].pc = "cp_ins"
    /\ Fails(proc, "createPerson", 0, "server error: database insert failed")

updatePerson_qGetPerson_fails(proc, id, p) ==
    /\ req[proc].pc = "idle"
    /\ p.Dept # 0
    /\ TrimSpace(p.Name) # <<>>
    /\ Fails(proc, "updatePerson", id, "server error: database query failed")

updatePerson_qGetDept_fails(proc) ==
    /\ req[proc].pc = "up_dept"
    /\ Fails(proc, "updatePerson", req[proc].id, "server error: database query failed")

\* the handler starting its goroutine although the statement failed
updatePerson_qUpdatePerson_failsIndexed(proc) ==
    /\ req[proc].pc = "up_upd"
    /\ Return(proc, Result("updatePerson", req[proc].id, StatusInternalServerError,
                           "server error: database query failed", NoRow, NoRow))
    /\ Spawn(Task("update", req[proc].id,
                  updatePersonOps(req[proc].oldp, req[proc].body)))
    /\ UNCHANGED <<Department, Person, lastID, index, mutated, imageFiles, files>>

updatePerson_qUpdatePerson_fails(proc) ==
    /\ req[proc].pc = "up_upd"
    /\ Fails(proc, "updatePerson", req[proc].id, "server error: database query failed")

deletePerson_qGetPerson_fails(proc, id) ==
    /\ req[proc].pc = "idle"
    /\ Fails(proc, "deletePerson", id, "server error: database query failed")

deletePerson_qDeletePerson_fails(proc) ==
    /\ req[proc].pc = "dp_del"
    /\ Fails(proc, "deletePerson", req[proc].id, "server error: database query failed")

getAllPersons_fails(proc, offsetStr, limitStr) ==
    /\ req[proc].pc = "idle"
    /\ offsetStr = <<>> \/ ~Atoi(offsetStr).err
    /\ limitStr = <<>> \/ ~Atoi(limitStr).err
    /\ Fails(proc, "getAllPersons", 0, "server error: database query failed")

deleteImage_qImageUsed_fails(proc, filename) ==
    /\ req[proc].pc = "idle"
    /\ filename # <<>>
    /\ Fails(proc, "deleteImage", 0, "server error: database query failed")

\* ----------------------------------------------------------------- startup
\* ioutil.ReadDir("./data/public/img/"): the names in order
RECURSIVE ReadDir(_)
ReadDir(fs) ==
    IF fs = {} THEN <<>>
    ELSE LET f == CHOOSE x \in fs : \A y \in fs : StrLeq(x, y)
         IN  <<f>> \o ReadDir(fs \ {f})

\* main after createSchema, before the index is built
Starting == [pc |-> "start", persons |-> <<>>]

\* analyzer = ftx.NewNGramAnalyzer(1, 20); db.Execute(ctx, qGetAllPersons,
\* int64(0), int64(MaxPersonsLimit)) and the loop that collects the persons
main_qGetAllPersons ==
    /\ main.pc = "start"
    /\ index' = {}
    /\ main' = [pc |-> "index", persons |-> qGetAllPersons(0, MaxPersonsLimit)]
    /\ UNCHANGED <<Department, Person, lastID, tasks, req, res, mutated, pre,
                   imageFiles, files>>

\* for _, p := range persons: analyzer.Index("Name Role Info", p.ID)
main_Index ==
    /\ main.pc = "index"
    /\ main.persons # <<>>
    /\ LET id == Head(main.persons)
       IN  index' = Index(index, PersonText(PersonEntity(Person, id)), id)
    /\ main' = [main EXCEPT !.persons = Tail(main.persons)]
    /\ UNCHANGED <<Department, Person, lastID, tasks, req, res, mutated, pre,
                   imageFiles, files>>

\* after the loop: the list of images is loaded, the routes are set up and
\* server.ListenAndServe() is called
main_ListenAndServe ==
    /\ main.pc = "index"
    /\ main.persons = <<>>
    /\ imageFiles' = imageFiles \o ReadDir(files)
    /\ main' = Serving
    /\ UNCHANGED <<Department, Person, lastID, index, tasks, req, res, mutated, pre,
                   files>>

\* the index main has built when it serves: the postings of the persons fetched
Loaded ==
    LET persons == qGetAllPersons(0, MaxPersonsLimit)
    IN  UNION {Tokens(PersonText(Person[persons[k]])) \X {persons[k]} :
                  k \in 1..Len(persons)}

\* ------------------------------------------------------------------ inputs
\* the request bodies and path ids the requests are drawn from
DeptBody(n, q) == [ID |-> 0, Name |-> n, Parent |-> q]

PersonBody(n, d, r) ==
    [ID |-> 0, Name |-> n, Dept |-> d, Email |-> <<"e">>, Img |-> <<>>, Role |-> r,
     Info |-> <<>>, Phone |-> <<>>]

PathIDs == 0..MaxID

\* one-at-a-time serving: valid, blank and empty names, every parent and
\* department
SeqDepts ==
    {[DeptBody(n, q) EXCEPT !.ID = i] :
        n \in {<<"a">>, <<" ">>, <<>>}, q \in 0..MaxID, i \in {0, MaxID}}
SeqPersons ==
    {PersonBody(n, d, <<>>) : n \in {<<"a">>, <<" ">>, <<>>}, d \in 0..MaxID}

\* concurrent serving of all handlers: root departments, one person name
ConcDepts == {DeptBody(<<"a">>, 0)}
ConcPersons == {PersonBody(<<"b">>, d, <<>>) : d \in 1..2}

\* concurrent serving of the person handlers: two names that share a token,
\* in the department the store starts with
IndexPersons == {PersonBody(n, 1, <<>>) : n \in {<<"b">>, <<"A", "b">>}}

\* concurrent serving of the person handlers and the reads: a person whose
\* fields all differ
ReadPersons ==
    {[ID |-> 0, Name |-> <<"b">>, Dept |-> 1, Email |-> <<"e">>, Img |-> <<"i">>,
      Role |-> <<"r">>, Info |-> <<"n">>, Phone |-> <<"p">>]}

\* concurrent serving of the image handlers and the person handlers: two file
\* names, a person with and without an image
ImageNames == {<<"a">>, <<"b">>}
ImgPersons == {[PersonBody(<<"b">>, 1, <<>>) EXCEPT !.Img = g] : g \in {<<>>, <<"a">>}}

\* the files of an upload form: none, one, two
UploadForms ==
    {<<>>} \cup {<<f>> : f \in ImageNames}
           \cup {<<f, g>> : <<f, g>> \in {w \in ImageNames \X ImageNames : w[1] # w[2]}}

\* the q parameters of the searches: one term, one term in upper and lower
\* case, two terms
SearchQueries == {<<"b">>, <<"A", "b">>, <<"A", " ", "b">>}

\* the listing of persons: the offset, limit and order parameters (absent,
\* numbers, not a number) and the tables listed, rows with ids from PageIDs
PageOffsets == {<<>>, <<"0">>, <<"1">>, <<"2">>, <<"x">>}
PageLimits == {<<>>, <<"0">>, <<"1">>, <<"2">>, <<"2", "0", "1">>, <<"x">>}
PageOrders == {"", "random"}
PageIDs == 2..(MaxPersons + 2)
PageRow == PersonRow(PersonBody(<<"b">>, 1, <<>>))
PageTables ==
    {[i \in ids |-> PageRow] : ids \in {s \in SUBSET PageIDs : Cardinality(s) <= MaxPersons}}
    \cup {[i \in 2..(MaxPersonsLimit + 2) |-> PageRow]}

\* -------------------------------------------------------------- the system
NoSnap == [none |-> TRUE]
Tables == [Department |-> Department, Person |-> Person]

\* the server starts on an empty store
Init ==
    /\ Department = <<>>
    /\ Person = <<>>
    /\ lastID = 0
    /\ index = {}
    /\ tasks = EmptyBag
    /\ req = [proc \in Procs |-> Idle]
    /\ res = NoRes
    /\ mutated = {}
    /\ pre = NoSnap
    /\ imageFiles = <<>>
    /\ files = {}
    /\ main = Serving

\* the server starts on a store that holds one root department
InitOneDept ==
    /\ Department = (1 :> [Name |-> <<"a">>, Parent |-> 0])
    /\ Person = <<>>
    /\ lastID = 1
    /\ index = {}
    /\ tasks = EmptyBag
    /\ req = [proc \in Procs |-> Idle]
    /\ res = NoRes
    /\ mutated = {}
    /\ pre = NoSnap
    /\ imageFiles = <<>>
    /\ files = {}
    /\ main = Serving

\* a department handler is entered: its first step
DeptCall(proc, depts) ==
    \/ \E dept \in depts : createDepartment(proc, dept)
    \/ \E id \in PathIDs, dept \in depts : updateDepartment(proc, id, dept)
    \/ \E id \in PathIDs : deleteDepartment_qDeptHasPersons(proc, id)

\* a person handler is entered: its first step
PersonCall(proc, persons) ==
    \/ \E p \in persons : createPerson_qGetDept(proc, p)
    \/ \E id \in PathIDs, p \in persons : updatePerson_qGetPerson(proc, id, p)
    \/ \E id \in PathIDs : deletePerson_qGetPerson(proc, id)

\* a handler that reads the store and returns is entered
ReadCall(proc) ==
    \/ getAllDepartments(proc)
    \/ \E id \in PathIDs : getDepartment(proc, id)
    \/ \E id \in PathIDs : getPerson(proc, id)

\* a department handler that was entered takes its next step
DeptStep(proc) ==
    \/ deleteDepartment_qDeptHasDept(proc)
    \/ deleteDepartment_qDeleteDept(proc)

\* a person handler that was entered takes its next step
PersonStep(proc) ==
    \/ createPerson_qInsertPerson(proc)
    \/ updatePerson_qGetDept(proc)
    \/ updatePerson_qUpdatePerson(proc)
    \/ deletePerson_qDeletePerson(proc)

Background == \E t \in BagToSet(tasks) : RunTask(t)

\* all requests are served concurrently
Next ==
    \/ \E proc \in Procs : DeptCall(proc, ConcDepts) /\ lastID' <= MaxConcID /\ UNCHANGED <<pre, aside>>
    \/ \E proc \in Procs : PersonCall(proc, ConcPersons) /\ UNCHANGED <<pre, aside>>
    \/ \E proc \in Procs : DeptStep(proc) /\ UNCHANGED <<pre, aside>>
    \/ \E proc \in Procs : PersonStep(proc) /\ lastID' <= MaxConcID /\ UNCHANGED <<pre, aside>>
    \/ Background /\ UNCHANGED <<pre, aside>>

Spec == Init /\ [][Next]_vars

\* person requests are served concurrently
IndexNext ==
    \/ \E proc \in Procs : PersonCall(proc, IndexPersons) /\ UNCHANGED <<pre, aside>>
    \/ \E proc \in Procs : PersonStep(proc) /\ lastID' <= MaxConcID /\ UNCHANGED <<pre, aside>>
    \/ Background /\ UNCHANGED <<pre, aside>>

IndexSpec == InitOneDept /\ [][IndexNext]_vars

\* person requests and reads of one record are served concurrently
ReadNext ==
    \/ \E proc \in Procs : PersonCall(proc, ReadPersons) /\ UNCHANGED <<pre, aside>>
    \/ \E proc \in Procs : PersonStep(proc) /\ lastID' <= MaxConcID /\ UNCHANGED <<pre, aside>>
    \/ \E proc \in Procs, id \in PathIDs : getPerson(proc, id) /\ UNCHANGED <<pre, aside>>
    \/ \E proc \in Procs, id \in PathIDs : getDepartment(proc, id) /\ UNCHANGED <<pre, aside>>
    \/ Background /\ UNCHANGED <<pre, aside>>

ReadSpec == InitOneDept /\ [][ReadNext]_vars

\* the server starts on a store that holds one department and one person
\* without an image, and on an image directory main has listed
InitImages ==
    /\ Department = (1 :> [Name |-> <<"a">>, Parent |-> 0])
    /\ Person = (2 :> PersonRow(PersonBody(<<"b">>, 1, <<>>)))
    /\ lastID = 2
    /\ index = Loaded
    /\ tasks = EmptyBag
    /\ req = [proc \in Procs |-> Idle]
    /\ res = NoRes
    /\ mutated = {}
    /\ pre = NoSnap
    /\ files \in SUBSET ImageNames
    /\ imageFiles = ReadDir(files)
    /\ main = Serving

\* an image handler is entered: its first step
ImageCall(proc) ==
    \/ \E filename \in ImageNames \cup {<<>>} : deleteImage_qImageUsed(proc, filename)
    \/ \E filename \in ImageNames : uploadHandler_Parse(proc, <<filename>>)

\* an image handler that was entered takes its next step
ImageStep(proc) ==
    \/ deleteImage_Remove(proc)
    \/ deleteImage_Unlist(proc)
    \/ uploadHandler_Stat(proc)
    \/ uploadHandler_Write(proc)
    \/ uploadHandler_Append(proc)

\* image requests and updatePerson requests are served concurrently
ImageNext ==
    \/ \E proc \in Procs : ImageCall(proc) /\ UNCHANGED <<pre, main>>
    \/ \E proc \in Procs : ImageStep(proc) /\ UNCHANGED <<pre, main>>
    \/ \E proc \in Procs, p \in ImgPersons :
          updatePerson_qGetPerson(proc, 2, p) /\ UNCHANGED <<pre, aside>>
    \/ \E proc \in Procs :
          (updatePerson_qGetDept(proc) \/ updatePerson_qUpdatePerson(proc))
          /\ UNCHANGED <<pre, aside>>
    \/ Background /\ UNCHANGED <<pre, aside>>

ImageSpec == InitImages /\ [][ImageNext]_vars

\* image requests are served concurrently; the responses of GET /images are
\* encoded after the handler has returned
SnapshotNext ==
    \/ \E proc \in Procs : ImageCall(proc) /\ UNCHANGED <<pre, main>>
    \/ \E proc \in Procs : ImageStep(proc) /\ UNCHANGED <<pre, main>>
    \/ \E proc \in Procs : getImages(proc) /\ UNCHANGED <<pre, main>>
    \/ \E proc \in Procs : getImages_Encode(proc) /\ UNCHANGED <<pre, main>>

SnapshotSpec == InitImages /\ [][SnapshotNext]_vars

\* person requests and searches are served concurrently
SearchNext ==
    \/ IndexNext
    \/ \E proc \in Procs, q \in SearchQueries :
          searchPersons_Query(proc, q) /\ UNCHANGED <<pre, main>>

SearchSpec == InitOneDept /\ [][SearchNext]_vars

\* the server starts on a store that holds one department and some persons
InitPersons ==
    /\ Department = (1 :> [Name |-> <<"a">>, Parent |-> 0])
    /\ Person \in PageTables
    /\ lastID \in {i \in 1..(MaxPersonsLimit + 2) : \A j \in DOMAIN Person : j <= i}
    /\ lastID <= 1 \/ lastID \in DOMAIN Person
    /\ index = Loaded
    /\ tasks = EmptyBag
    /\ req = [proc \in Procs |-> Idle]
    /\ res = NoRes
    /\ mutated = {}
    /\ pre = NoSnap
    /\ imageFiles = <<>>
    /\ files = {}
    /\ main = Serving

\* the persons are listed; a page of more than MaxPersons rows is not shuffled
PageNext ==
    \E proc \in Procs, offsetStr \in PageOffsets, limitStr \in PageLimits,
       order \in PageOrders :
        /\ order = "random" => Cardinality(DOMAIN Person) <= MaxPersons
        /\ getAllPersons(proc, offsetStr, limitStr, order)
        /\ UNCHANGED <<pre, main>>

PageSpec == InitPersons /\ [][PageNext]_vars

\* the request slot in use where store statements fail
FailProcs == {"r1"}

\* a store statement of the handler in this slot fails
StoreFailure(proc) ==
    \/ \E id \in PathIDs : getDepartment_fails(proc, id)
    \/ getAllDepartments_fails(proc)
    \/ \E dept \in ConcDepts : createDepartment_fails(proc, dept)
    \/ \E id \in PathIDs : deleteDepartment_qDeptHasPersons_fails(proc, id)
    \/ deleteDepartment_qDeptHasDept_fails(proc)
    \/ deleteDepartment_qDeleteDept_fails(proc)
    \/ \E id \in PathIDs, dept \in ConcDepts : updateDepartment_fails(proc, id, dept)
    \/ \E id \in PathIDs : getPerson_fails(proc, id)
    \/ \E p \in ConcPersons : createPerson_qGetDept_fails(proc, p)
    \/ createPerson_qInsertPerson_fails(proc)
    \/ \E id \in PathIDs, p \in ConcPersons : updatePerson_qGetPerson_fails(proc, id, p)
    \/ updatePerson_qGetDept_fails(proc)
    \/ updatePerson_qUpdatePerson_fails(proc)
    \/ \E id \in PathIDs : deletePerson_qGetPerson_fails(proc, id)
    \/ deletePerson_qDeletePerson_fails(proc)
    \/ \E o \in {<<>>, <<"1">>}, l \in {<<>>, <<"1">>} : getAllPersons_fails(proc, o, l)
    \/ \E filename \in ImageNames : deleteImage_qImageUsed_fails(proc, filename)

\* one request is in flight beside the index goroutines, and any store
\* statement may fail
FailNext ==
    \/ \E proc \in FailProcs : DeptCall(proc, ConcDepts) /\ UNCHANGED <<pre, aside>>
    \/ \E proc \in FailProcs : PersonCall(proc, ConcPersons) /\ UNCHANGED <<pre, aside>>
    \/ \E proc \in FailProcs : DeptStep(proc) /\ UNCHANGED <<pre, aside>>
    \/ \E proc \in FailProcs : PersonStep(proc) /\ UNCHANGED <<pre, aside>>
    \/ Background /\ UNCHANGED <<pre, aside>>
    \/ \E proc \in FailProcs : StoreFailure(proc) /\ UNCHANGED <<pre, main>>

FailSpec == Init /\ [][FailNext]_vars

\* the process starts on a store that holds one department and some persons
InitStart ==
    /\ Department = (1 :> [Name |-> <<"a">>, Parent |-> 0])
    /\ Person \in PageTables
    /\ lastID \in {i \in 1..(MaxPersonsLimit + 2) : \A j \in DOMAIN Person : j <= i}
    /\ lastID <= 1 \/ lastID \in DOMAIN Person
    /\ index = {}
    /\ tasks = EmptyBag
    /\ req = [proc \in Procs |-> Idle]
    /\ res = NoRes
    /\ mutated = {}
    /\ pre = NoSnap
    /\ imageFiles = <<>>
    /\ files = {}
    /\ main = Starting

\* main builds the index and then serves searches and reads of a person
StartNext ==
    \/ main_qGetAllPersons
    \/ main_Index
    \/ main_ListenAndServe
    \/ \E proc \in Procs, q \in SearchQueries :
          main.pc = "serve" /\ searchPersons_Query(proc, q) /\ UNCHANGED <<pre, main>>
    \/ \E proc \in Procs, id \in PageIDs :
          main.pc = "serve" /\ getPerson(proc, id) /\ UNCHANGED <<pre, aside>>

StartSpec == InitStart /\ [][StartNext]_vars

\* the server starts on a store with one department and one person and on
\* two images
InitReads == InitImages /\ files = ImageNames

\* the six handlers that only read
Reads(proc) ==
    \/ \E id \in PathIDs : getDepartment(proc, id) /\ UNCHANGED aside
    \/ getAllDepartments(proc) /\ UNCHANGED aside
    \/ \E id \in PathIDs : getPerson(proc, id) /\ UNCHANGED aside
    \/ \E o \in {<<>>, <<"1">>}, l \in {<<>>, <<"1">>}, order \in PageOrders :
          getAllPersons(proc, o, l, order) /\ UNCHANGED main
    \/ getImages(proc) /\ UNCHANGED main
    \/ getImages_Encode(proc) /\ UNCHANGED main
    \/ \E q \in SearchQueries : searchPersons_Query(proc, q) /\ UNCHANGED main

\* one update or delete of the person is in flight beside the index
\* goroutines, or a read is served
ReadsNext ==
    \/ \E proc \in FailProcs, p \in IndexPersons :
          updatePerson_qGetPerson(proc, 2, p) /\ UNCHANGED <<pre, aside>>
    \/ \E proc \in FailProcs :
          (updatePerson_qGetDept(proc) \/ updatePerson_qUpdatePerson(proc))
          /\ UNCHANGED <<pre, aside>>
    \/ \E proc \in FailProcs : deletePerson_qGetPerson(proc, 2) /\ UNCHANGED <<pre, aside>>
    \/ \E proc \in FailProcs : deletePerson_qDeletePerson(proc) /\ UNCHANGED <<pre, aside>>
    \/ Background /\ UNCHANGED <<pre, aside>>
    \/ \E proc \in FailProcs : Reads(proc) /\ UNCHANGED pre

ReadsSpec == InitReads /\ [][ReadsNext]_vars

\* every index goroutine a createPerson call can start
\* uploads and deletions of images are served one at a time
UploadNext ==
    \/ \E proc \in FailProcs, fileHeaders \in UploadForms :
          uploadHandler_Parse(proc, fileHeaders) /\ UNCHANGED <<pre, main>>
    \/ \E proc \in FailProcs, filename \in ImageNames :
          deleteImage_qImageUsed(proc, filename) /\ UNCHANGED <<pre, main>>
    \/ \E proc \in FailProcs : ImageStep(proc) /\ UNCHANGED <<pre, main>>

UploadSpec == InitImages /\ [][UploadNext]_vars

\* the server starts on a store with the department 1 of person 2 and the
\* department 3 without staff and subdepartments
InitDelete ==
    /\ Department = (1 :> [Name |-> <<"a">>, Parent |-> 0])
                    @@ (3 :> [Name |-> <<"a">>, Parent |-> 0])
    /\ Person = (2 :> PageRow)
    /\ lastID = 3
    /\ index = Loaded
    /\ tasks = EmptyBag
    /\ req = [proc \in Procs |-> Idle]
    /\ res = NoRes
    /\ mutated = {}
    /\ pre = NoSnap
    /\ imageFiles = <<>>
    /\ files = {}
    /\ main = Serving

\* delete requests are served concurrently; the unindex goroutines they start
\* have not been scheduled yet
DeleteNext ==
    \/ \E proc \in Procs, id \in PathIDs :
          deletePerson_qGetPerson(proc, id) /\ UNCHANGED <<pre, aside>>
    \/ \E proc \in Procs : deletePerson_qDeletePerson(proc) /\ UNCHANGED <<pre, aside>>
    \/ \E proc \in Procs, id \in PathIDs :
          deleteDepartment_qDeptHasPersons(proc, id) /\ UNCHANGED <<pre, aside>>
    \/ \E proc \in Procs : DeptStep(proc) /\ UNCHANGED <<pre, aside>>

DeleteSpec == InitDelete /\ [][DeleteNext]_vars

IndexTexts == {PersonText(p) : p \in IndexPersons}
CreateTasks ==
    {Task("create", i, <<IndexOp("Index", x)>>) : i \in 1..MaxID, x \in IndexTexts}

\* the Go scheduler runs a goroutine that stays runnable: the goroutine of
\* createPerson makes its one call (fairness for the other goroutines is not
\* needed and not assumed)
FairIndexSpec ==
    IndexSpec /\ \A t \in CreateTasks : WF_vars(RunTask(t) /\ UNCHANGED <<pre, aside>>)

\* the Department table of api_test.go: mainB, mainA, mainC, and subA1, subA2
\* under mainA, subB1 under mainB
Fixture ==
    <<[Name |-> <<"m", "a", "i", "n", "B">>, Parent |-> 0],
      [Name |-> <<"m", "a", "i", "n", "A">>, Parent |-> 0],
      [Name |-> <<"m", "a", "i", "n", "C">>, Parent |-> 0],
      [Name |-> <<"s", "u", "b", "A", "1">>, Parent |-> 2],
      [Name |-> <<"s", "u", "b", "A", "2">>, Parent |-> 2],
      [Name |-> <<"s", "u", "b", "B", "1">>, Parent |-> 1]>>

\* the tables the listing is applied to: up to MaxDepts rows, three names of
\* which one is a prefix of another, every Parent
ListNames == {<<"a">>, <<"b">>, <<"a", "b">>}
ListTables ==
    UNION {[1..n -> [Name : ListNames, Parent : 0..n]] : n \in 0..MaxDepts}

\* the server starts on a store that holds some departments
InitDepts ==
    /\ Department \in ListTables \cup {Fixture}
    /\ Person = <<>>
    /\ lastID = Len(Department)
    /\ index = {}
    /\ tasks = EmptyBag
    /\ req = [proc \in Procs |-> Idle]
    /\ res = NoRes
    /\ mutated = {}
    /\ pre = NoSnap
    /\ imageFiles = <<>>
    /\ files = {}
    /\ main = Serving

\* the departments are listed
ListNext == \E proc \in Procs : getAllDepartments(proc) /\ UNCHANGED <<pre, aside>>

ListSpec == InitDepts /\ [][ListNext]_vars

AllIdle == \A proc \in Procs : req[proc].pc = "idle"

\* pre while a call served alone is running: the tables as it found them
Snapshot(proc, found) == IF req'[proc].pc = "idle" THEN NoSnap ELSE found

\* the server starts on a store deleteDepartment can find: departments 1 and 2
\* with any parent, a person 3 in either of them, references to rows that are
\* gone included (a Person's Dept and a Department's Parent are not checked
\* against concurrent or later deletions)
InitConflict ==
    /\ Department \in UNION {[ids -> {[Name |-> <<"a">>, Parent |-> q] : q \in 0..2}] :
                                ids \in SUBSET {1, 2}}
    /\ Person \in {<<>>} \cup {(3 :> [PageRow EXCEPT !.Dept = d]) : d \in 1..2}
    /\ lastID = 3
    /\ index = Loaded
    /\ tasks = EmptyBag
    /\ req = [proc \in Procs |-> Idle]
    /\ res = NoRes
    /\ mutated = {}
    /\ pre = NoSnap
    /\ imageFiles = <<>>
    /\ files = {}
    /\ main = Serving

\* deleteDepartment is served, one request at a time
ConflictNext ==
    \/ \E proc \in FailProcs, id \in PathIDs :
          /\ AllIdle
          /\ deleteDepartment_qDeptHasPersons(proc, id)
          /\ pre' = Snapshot(proc, Tables)
          /\ UNCHANGED aside
    \/ \E proc \in FailProcs : DeptStep(proc) /\ pre' = Snapshot(proc, pre) /\ UNCHANGED aside

ConflictSpec == InitConflict /\ [][ConflictNext]_vars

\* the request slot in use when requests are served one at a time
SeqProcs == {"r1"}

\* requests are served one at a time, each after the index goroutines of the
\* earlier ones have returned
SeqNext ==
    \/ \E proc \in SeqProcs :
          /\ AllIdle /\ tasks = EmptyBag
          /\ DeptCall(proc, SeqDepts) \/ PersonCall(proc, SeqPersons) \/ ReadCall(proc)
          /\ pre' = Snapshot(proc, Tables)
          /\ UNCHANGED aside
    \/ \E proc \in SeqProcs : (DeptStep(proc) \/ PersonStep(proc))
          /\ pre' = Snapshot(proc, pre) /\ UNCHANGED aside
    \/ Background /\ UNCHANGED <<pre, aside>>

SeqSpec == Init /\ [][SeqNext]_vars

\* ------------------------------------------------------------------ properties
\* no request is running and every index goroutine has returned
Quiescent == AllIdle /\ tasks = EmptyBag

\* C1: under concurrent serving, every Person in the store has a Dept that is
\* the id of a Department in the store.
C1_PersonDeptExists ==
    \A i \in DOMAIN Person : Person[i].Dept \in DOMAIN Department

\* C2: after any sequence of department requests, every Department with a
\* non-zero Parent references a Department in the store whose own Parent is 0.
C2_ParentIsRoot ==
    \A i \in DOMAIN Department :
        Department[i].Parent # 0 =>
            /\ Department[i].Parent \in DOMAIN Department
            /\ Department[Department[i].Parent].Parent = 0

\* every term of the query q is a token of text
Matches(q, text) ==
    LET terms == Split(ToLower(q))
    IN  \A k \in 1..Len(terms) : terms[k] \in Tokens(text)

\* the queries the properties ask: each name a person can carry
Queries == {<<"b">>, <<"A", "b">>, <<"a">>}

\* the postings the Person table calls for
StoreIndex ==
    {<<t, i>> : <<t, i>> \in
        UNION {Tokens(PersonText(Person[j])) \X {j} : j \in DOMAIN Person}}

\* C3: after a successful updatePerson that replaced a record named oldName by
\* one named newName, once the index goroutines have returned and no later
\* request touched the person, query(oldName) does not contain the id (for an
\* oldName that the new text does not match) and query(newName) does.
C3_UpdateSettles ==
    (/\ Quiescent
     /\ res.op = "updatePerson"
     /\ res.status = StatusOK
     /\ res.old # NoRow)
    => /\ ~Matches(res.old.Name, PersonText(res.ent))
            => res.id \notin searchPersons(res.old.Name)
       /\ res.id \in searchPersons(res.ent.Name)

\* C5: after a successful deletePerson, once the index goroutines have
\* returned, no query returns the id.
C5_DeleteSettles ==
    (/\ Quiescent
     /\ res.op = "deletePerson"
     /\ res.status = StatusNoContent)
    => \A q \in Queries : res.id \notin searchPersons(q)

\* C6: once the requests have stopped and the index goroutines have returned,
\* the index holds token -> id exactly for the tokens of the "Name Role Info"
\* text of each Person in the store.
C6_IndexMatchesStore == Quiescent => index = StoreIndex

\* the person i is as createPerson stored it
Unmutated(i) == i \in DOMAIN Person /\ i \notin mutated

\* the index goroutine of the createPerson that returned i has not returned
CreateRunning(i) == \E t \in BagToSet(tasks) : t.kind = "create" /\ t.id = i

Ran(t) ==
    /\ t \in BagToSet(tasks)
    /\ tasks' = (tasks (-) SetToBag({t})) (+) Advance(t)

\* the update statement of the request proc executes in this step
Updates(proc) == req[proc].pc = "up_upd" /\ req'[proc].pc = "idle"

UpdateTasks(bag) == {t \in BagToSet(bag) : t.kind = "update"}

\* C7: within one updatePerson call the UnIndex of the old text happens
\* before the Index of the new text, and both after the store update: the
\* goroutine exists only from the step of the update statement on, it has
\* made no call then, and it never makes the Index call before the UnIndex.
C7_OldThenNew ==
    [][/\ \A t \in UpdateTasks(tasks) :
            (Ran(t) /\ t.ops[t.pc + 1].op = "Index")
            => \E k \in 1..t.pc : t.ops[k].op = "UnIndex"
       /\ \A proc \in Procs :
            Updates(proc)
            => \E t \in UpdateTasks(tasks') :
                  /\ tasks' = tasks (+) SetToBag({t})
                  /\ t.id = req[proc].id /\ t.pc = 0
                  /\ \E k \in 1..Len(t.ops) :
                        t.ops[k] = IndexOp("UnIndex", PersonText(req[proc].oldp))
                  /\ \E k \in 1..Len(t.ops) :
                        t.ops[k] = IndexOp("Index", PersonText(req[proc].body))
                  /\ t.id \in DOMAIN Person
                        => Person'[t.id] = PersonRow(req[proc].body)
       /\ (\E t \in UpdateTasks(tasks') : t.pc = 0 /\ ~BagIn(t, tasks))
            => \E proc \in Procs : Updates(proc)
      ]_vars

C7_Witness ==
    \E t \in UpdateTasks(tasks) :
        /\ t.pc = 1
        /\ t.ops[1].op = "UnIndex" /\ t.ops[2].op = "Index"
        /\ t.ops[1].text # t.ops[2].text

\* the tables as the call that returns in this step found them
Found == IF pre = NoSnap THEN Tables ELSE pre

\* the handler op returns in this step
ReturnsFrom(op) == res' # res /\ res'.op = op

LeavesTables == Department' = Found.Department /\ Person' = Found.Person

\* C8: deleteDepartment(id) called when a Person has Dept == id fails with
\* the staff conflict (400) and leaves both tables as they were.
C8_StaffConflict ==
    [][(/\ ReturnsFrom("deleteDepartment")
        /\ \E i \in DOMAIN Found.Person : Found.Person[i].Dept = res'.id)
       => /\ res'.status = StatusBadRequest
          /\ res'.err = "cannot delete department with associated staff"
          /\ LeavesTables
      ]_vars

C8_Witness ==
    /\ res.op = "deleteDepartment"
    /\ res.err = "cannot delete department with associated staff"
    /\ qDeptHasPersons(res.id)
    /\ res.id \in DOMAIN Department

\* C9: deleteDepartment(id) called when no Person references id and a
\* Department has Parent == id fails with the subdepartment conflict (400) and
\* leaves the store as it was.
C9_SubdepartmentConflict ==
    [][(/\ ReturnsFrom("deleteDepartment")
        /\ ~\E i \in DOMAIN Found.Person : Found.Person[i].Dept = res'.id
        /\ \E i \in DOMAIN Found.Department : Found.Department[i].Parent = res'.id)
       => /\ res'.status = StatusBadRequest
          /\ res'.err = "cannot delete department with subdepartments"
          /\ LeavesTables
      ]_vars

C9_Witness ==
    /\ res.op = "deleteDepartment"
    /\ res.err = "cannot delete department with subdepartments"
    /\ ~qDeptHasPersons(res.id)
    /\ qDeptHasDept(res.id)
    /\ res.id \in DOMAIN Department

\* C10: deleteDepartment(id) for an id that is not in the Department table
\* and that no Person and no Department references fails with NotFound (404,
\* "department does not exist") and leaves the store as it was.
C10_NotFound ==
    [][(/\ ReturnsFrom("deleteDepartment")
        /\ res'.id \notin DOMAIN Found.Department
        /\ ~\E i \in DOMAIN Found.Person : Found.Person[i].Dept = res'.id
        /\ ~\E i \in DOMAIN Found.Department : Found.Department[i].Parent = res'.id)
       => /\ res'.status = StatusNotFound
          /\ res'.err = "department does not exist"
          /\ LeavesTables
      ]_vars

C10_Witness ==
    /\ res.op = "deleteDepartment"
    /\ res.status = StatusNotFound
    /\ res.id \notin DOMAIN Department
    /\ ~qDeptHasPersons(res.id)
    /\ ~qDeptHasDept(res.id)

\* C11: deleteDepartment(id) returns 204 only for a department that was in the
\* store, that no Person referenced and that was the Parent of no Department
\* when the call, served alone, was made; on success exactly the row id is
\* removed: every other Department and every Person is as it was.
C11_DeleteRemovesOneRow ==
    [][(ReturnsFrom("deleteDepartment") /\ res'.status = StatusNoContent)
       => /\ res'.id \in DOMAIN Found.Department
          /\ ~\E i \in DOMAIN Found.Person : Found.Person[i].Dept = res'.id
          /\ ~\E i \in DOMAIN Found.Department : Found.Department[i].Parent = res'.id
          /\ DOMAIN Department' = DOMAIN Found.Department \ {res'.id}
          /\ \A i \in DOMAIN Department' : Department'[i] = Found.Department[i]
          /\ Person' = Found.Person
      ]_vars

C11_Witness ==
    /\ res.op = "deleteDepartment"
    /\ res.status = StatusNoContent
    /\ res.id \notin DOMAIN Department
    /\ \E i \in DOMAIN Department : i < res.id

\* the positions of the list l that hold a root department
Roots(l) == {k \in 1..Len(l) : l[k].Parent = 0}

\* the ids of the departments whose Parent is id
Children(id) == {i \in DOMAIN Department : Department[i].Parent = id}

\* the names of the list l
Names(l) == [k \in 1..Len(l) |-> l[k].Name]

\* C12: in the list getAllDepartments returns, the roots are in ascending name
\* order, every root is immediately followed by all the departments whose
\* Parent is its ID, these in ascending name order; the order follows the
\* names, not the ids: for the table of the tests it is exactly mainA, subA1,
\* subA2, mainB, subB1, mainC.
C12_ListOrder ==
    res.op = "getAllDepartments" =>
    LET l == res.ent.list
    IN  /\ \A j \in Roots(l), k \in Roots(l) :
              j < k => StrLeq(l[j].Name, l[k].Name)
        /\ \A k \in Roots(l) :
              LET c == Cardinality(Children(l[k].ID))
              IN  /\ k + c <= Len(l)
                  /\ {l[j].ID : j \in (k + 1)..(k + c)} = Children(l[k].ID)
                  /\ \A j \in (k + 1)..(k + c - 1) : StrLeq(l[j].Name, l[j + 1].Name)
        /\ \A j \in Roots(l), k \in Roots(l) :
              (l[j].Name # l[k].Name /\ StrLeq(l[j].Name, l[k].Name)) => j < k
        /\ Department = Fixture =>
              Names(l) = <<Fixture[2].Name, Fixture[4].Name, Fixture[5].Name,
                           Fixture[1].Name, Fixture[6].Name, Fixture[3].Name>>

C12_Witness ==
    /\ res.op = "getAllDepartments"
    /\ Department = Fixture
    /\ Len(res.ent.list) = 6
    /\ res.ent.list[1].ID = 2
    /\ res.ent.list[4].ID = 1

\* C13: getAllDepartments returns all departments: every Department in the
\* store appears in the returned list exactly once and nothing else appears.
C13_ListsAll ==
    res.op = "getAllDepartments" =>
    LET l == res.ent.list
    IN  /\ Len(l) = Cardinality(DOMAIN Department)
        /\ {l[k].ID : k \in 1..Len(l)} = DOMAIN Department
        /\ \A k \in 1..Len(l) : l[k] = DeptEntity(Department, l[k].ID)

\* the string is empty or made of white space only
Blank(s) == \A k \in 1..Len(s) : s[k] = " "

\* the rows of the table old are in the table new as they were
KeepsRows(old, new) ==
    /\ DOMAIN old \subseteq DOMAIN new
    /\ \A i \in DOMAIN old : new[i] = old[i]

\* C14: every createDepartment call with a name that does not trim to empty
\* returns 201, inserts exactly one Department row, and returns an entity whose
\* ID is positive, is the id() the store gave the row and so the ID of no other
\* department, and whose Name and Parent are the submitted ones; the rows that
\* were in the store are unchanged.
C14_CreateDepartment ==
    [][\A proc \in SeqProcs, dept \in SeqDepts :
          (/\ res'.op = "createDepartment"
           /\ ~Blank(dept.Name)
           /\ createDepartment(proc, dept))
          => /\ res'.status = StatusCreated
             /\ res'.ent.ID > 0
             /\ res'.ent.ID \notin DOMAIN Department
             /\ DOMAIN Department' = DOMAIN Department \cup {res'.ent.ID}
             /\ Department'[res'.ent.ID] = [Name |-> dept.Name, Parent |-> dept.Parent]
             /\ res'.ent.Name = dept.Name /\ res'.ent.Parent = dept.Parent
             /\ KeepsRows(Department, Department')
             /\ Person' = Person
      ]_vars

C14_Witness ==
    /\ res.op = "createDepartment"
    /\ res.status = StatusCreated
    /\ res.ent.ID \in DOMAIN Department
    /\ res.ent.Parent # 0
    /\ \E i \in DOMAIN Department : i # res.ent.ID

\* C15: createDepartment and updateDepartment called with a name that is empty
\* or only white space return 400 "department must have a name" and leave the
\* Department table unchanged; so no department in the store has a name that
\* trims to empty.
C15_BlankNameRefused ==
    [][/\ \A proc \in SeqProcs, dept \in SeqDepts :
            (/\ Blank(dept.Name)
             /\ \/ res'.op = "createDepartment" /\ createDepartment(proc, dept)
                \/ res'.op = "updateDepartment"
                      /\ updateDepartment(proc, res'.id, dept))
            => /\ res'.status = StatusBadRequest
               /\ res'.err = "department must have a name"
               /\ Department' = Department
       /\ \A i \in DOMAIN Department' : ~Blank(Department'[i].Name)
      ]_vars

C15_Witness ==
    /\ res.op \in {"createDepartment", "updateDepartment"}
    /\ res.status = StatusBadRequest
    /\ res.err = "department must have a name"
    /\ Department # <<>>

\* the request proc returns status and err in this step, and the step leaves
\* the tables as they are and starts no index goroutine
Refused(proc, status, err) ==
    /\ req'[proc].pc = "idle"
    /\ res'.status = status /\ res'.err = err
    /\ Department' = Department /\ Person' = Person
    /\ tasks' = tasks

\* C16: createPerson returns 400 "person must have a name" when Name trims to
\* empty (whatever Dept is), 400 "person must belong to a department" when
\* Dept is 0, and 404 "department does not exist" when Dept is non-zero and no
\* such Department exists; in each case no Person row is inserted and no index
\* goroutine is started.
C16_CreatePersonRefused ==
    [][\A proc \in SeqProcs, p \in SeqPersons :
          (res'.op \in {"createPerson", "none"} /\ createPerson_qGetDept(proc, p))
          => /\ Blank(p.Name)
                => Refused(proc, StatusBadRequest, "person must have a name")
             /\ (~Blank(p.Name) /\ p.Dept = 0)
                => Refused(proc, StatusBadRequest, "person must belong to a department")
             /\ (~Blank(p.Name) /\ p.Dept # 0 /\ p.Dept \notin DOMAIN Department)
                => Refused(proc, StatusNotFound, "department does not exist")
      ]_vars

C16_Witness ==
    /\ res.op = "createPerson"
    /\ res.status = StatusNotFound
    /\ res.err = "department does not exist"
    /\ Department # <<>>
    /\ Person # <<>>

\* the path id of the updatePerson call whose first step this is
EnteredID(proc) == IF res'.op = "none" THEN req'[proc].id ELSE res'.id

\* C17: updatePerson(id, p) returns a validation error (400) if p.Dept is 0 or
\* p.Name trims to empty, 404 "person not found" if no Person has that id
\* (before the department is looked up), and 404 "department does not exist"
\* if p.Dept names no Department; in every such case the Person table is
\* unchanged and no index goroutine is started.
C17_UpdatePersonRefused ==
    [][\A proc \in SeqProcs :
          /\ \A p \in SeqPersons :
                (/\ res'.op \in {"updatePerson", "none"}
                 /\ updatePerson_qGetPerson(proc, EnteredID(proc), p))
                => /\ (p.Dept = 0 \/ Blank(p.Name))
                      => /\ \/ /\ p.Dept = 0
                               /\ Refused(proc, StatusBadRequest,
                                          "person must belong to a department")
                            \/ /\ Blank(p.Name)
                               /\ Refused(proc, StatusBadRequest,
                                          "person must have a name")
                   /\ (/\ p.Dept # 0 /\ ~Blank(p.Name)
                       /\ EnteredID(proc) \notin DOMAIN Person)
                      => Refused(proc, StatusNotFound, "person not found")
          /\ (/\ req[proc].pc = "up_dept"
              /\ req[proc].body.Dept \notin DOMAIN Department
              /\ updatePerson_qGetDept(proc))
             => Refused(proc, StatusNotFound, "department does not exist")
      ]_vars

C17_Witness ==
    /\ res.op = "updatePerson"
    /\ res.status = StatusNotFound
    /\ res.err = "department does not exist"
    /\ res.id \in DOMAIN Person

\* C18: deletePerson(id) for an id with no Person row returns 404, leaves the
\* store unchanged and starts no unindex goroutine; for an existing id it
\* removes exactly that Person row: every other Person and every Department
\* is as it was.
C18_DeletePerson ==
    [][ReturnsFrom("deletePerson")
       => IF res'.id \notin DOMAIN Found.Person
          THEN /\ res'.status = StatusNotFound
               /\ LeavesTables
               /\ tasks' = tasks
          ELSE /\ res'.status = StatusNoContent
               /\ DOMAIN Person' = DOMAIN Found.Person \ {res'.id}
               /\ \A i \in DOMAIN Person' : Person'[i] = Found.Person[i]
               /\ Department' = Found.Department
      ]_vars

C18_Witness ==
    /\ res.op = "deletePerson"
    /\ res.status = StatusNoContent
    /\ res.id \notin DOMAIN Person
    /\ Person # <<>>

\* the entity of the person i as a createPerson call submitted it
Submitted(p, i) == [p EXCEPT !.ID = i]

\* C19: after a createPerson(p) that returned i, and until an update or delete
\* statement for i has run, getPerson(i) returns 200 and the person with ID i
\* and the submitted Name, Dept, Email, Phone, Img, Role and Info; getPerson
\* and getDepartment of an id that is not in the store return 404.
C19_GetReturnsSubmitted ==
    [][/\ (res' # res /\ res'.op = "getPerson")
          => IF res'.id \in DOMAIN Person
             THEN /\ res'.status = StatusOK
                  /\ res'.id \notin mutated
                     => \E p \in ReadPersons : res'.ent = Submitted(p, res'.id)
             ELSE res'.status = StatusNotFound
       /\ (res' # res /\ res'.op = "getDepartment" /\ res'.id \notin DOMAIN Department)
          => res'.status = StatusNotFound
      ]_vars

\* C20: an updateDepartment(id, name, parent) with a non-blank name on a
\* department that exists returns 200 and the department with ID id, whatever
\* ID the body carries, and the submitted Name and Parent; it stores exactly
\* that Name and Parent in row id and changes no other row; getDepartment(id)
\* returns 200 and the row id as it is stored.
C20_UpdateDepartment ==
    [][/\ \A proc \in SeqProcs, dept \in SeqDepts :
            (/\ res'.op = "updateDepartment"
             /\ ~Blank(dept.Name)
             /\ res'.id \in DOMAIN Department
             /\ updateDepartment(proc, res'.id, dept))
            => /\ res'.status = StatusOK
               /\ res'.ent = [ID |-> res'.id, Name |-> dept.Name,
                              Parent |-> dept.Parent]
               /\ DOMAIN Department' = DOMAIN Department
               /\ Department'[res'.id] = [Name |-> dept.Name, Parent |-> dept.Parent]
               /\ \A j \in DOMAIN Department \ {res'.id} :
                     Department'[j] = Department[j]
               /\ Person' = Person
       /\ \A proc \in SeqProcs :
            (/\ res'.op = "getDepartment"
             /\ res'.id \in DOMAIN Department
             /\ getDepartment(proc, res'.id))
            => /\ res'.status = StatusOK
               /\ res'.ent = [ID |-> res'.id, Name |-> Department[res'.id].Name,
                              Parent |-> Department[res'.id].Parent]
      ]_vars

\* an update gave a department that exists a parent, another department being
\* in the store
C20_Witness ==
    /\ res.op = "updateDepartment"
    /\ res.status = StatusOK
    /\ res.id \in DOMAIN Department
    /\ res.ent.Parent # 0
    /\ Department[res.id].Parent = res.ent.Parent
    /\ Cardinality(DOMAIN Department) >= 2

\* some person of the table has this image
InUse(table, filename) == \E i \in DOMAIN table : table[i].Img = filename

\* C21: in every interleaving of deleteImage(f) with person requests that set
\* Img = f, when deleteImage removes the file f, and when it removes the list
\* entry, no Person in the store has Img = f.
C21_UsedImageKept ==
    [][\A proc \in Procs :
          (\/ deleteImage_Remove(proc) /\ files' # files
           \/ deleteImage_Unlist(proc))
          => ~InUse(Person, req[proc].body.filename)
      ]_vars

\* C22: deleteImage(filename) returns 400 "missing filename parameter" when
\* the filename is missing and 400 "image is in use; cannot delete" when some
\* Person has Img = filename; it then has returned, no file is removed and
\* the image list is unchanged.
C22_DeleteImageRefused ==
    [][\A proc \in Procs, filename \in ImageNames \cup {<<>>} :
          (/\ filename = <<>> \/ InUse(Person, filename)
           /\ deleteImage_qImageUsed(proc, filename))
          => /\ res'.op = "deleteImage"
             /\ res'.status = StatusBadRequest
             /\ res'.err = IF filename = <<>> THEN "missing filename parameter"
                           ELSE "image is in use; cannot delete"
             /\ req'[proc].pc = "idle"
             /\ files' = files
             /\ imageFiles' = imageFiles
      ]_vars

\* the deletion of an image that is on the disk, in the list and in use was
\* refused
C22_Witness ==
    /\ res.op = "deleteImage"
    /\ res.err = "image is in use; cannot delete"
    /\ \E i \in DOMAIN Person :
          /\ Person[i].Img \in files
          /\ \E k \in 1..Len(imageFiles) : imageFiles[k] = Person[i].Img

\* new is old without its first entry equal to filename, which it has
FirstRemoved(old, new, filename) ==
    \E k \in 1..Len(old) :
        /\ old[k] = filename
        /\ \A j \in 1..(k - 1) : old[j] # filename
        /\ new = SubSeq(old, 1, k - 1) \o SubSeq(old, k + 1, Len(old))

\* C23: a deleteImage(filename) that succeeds removes exactly one entry from
\* the image list, the first one equal to filename: the list is one entry
\* shorter and every other entry, later duplicates of filename included,
\* stays in its place relative to the others.
C23_RemovesFirstEntry ==
    [][\A proc \in Procs :
          deleteImage_Unlist(proc)
          => /\ res'.status = StatusNoContent
             /\ Len(imageFiles') = Len(imageFiles) - 1
             /\ FirstRemoved(imageFiles, imageFiles', req[proc].body.filename)
      ]_vars

\* the lower-cased, space-separated terms of the queries asked
TermsOf(q) ==
    CASE q = <<"b">> -> {<<"b">>}
      [] q = <<"A", "b">> -> {<<"a", "b">>}
      [] q = <<"A", " ", "b">> -> {<<"a">>, <<"b">>}

\* the ids the index posts under every one of the terms
Postings(terms) ==
    {id \in {w[2] : w \in index} : \A t \in terms : <<t, id>> \in index}

\* C24: searchPersons(q) lower-cases q, splits it at the spaces and returns 200
\* and exactly the ids the index associates with every one of the terms; no id
\* is in Hits twice and Count is the number of Hits.
C24_SearchIsIntersection ==
    [][\A proc \in Procs, q \in SearchQueries :
          searchPersons_Query(proc, q)
          => /\ res'.status = StatusOK
             /\ {res'.ent.Hits[k] : k \in 1..Len(res'.ent.Hits)} = Postings(TermsOf(q))
             /\ \A j, k \in 1..Len(res'.ent.Hits) :
                   res'.ent.Hits[j] = res'.ent.Hits[k] => j = k
             /\ res'.ent.Count = Len(res'.ent.Hits)
      ]_vars

\* a two-term search found nobody although the index posts a person under
\* one of the terms
C24_Witness ==
    /\ res.op = "searchPersons"
    /\ res.old.q = <<"A", " ", "b">>
    /\ res.ent.Hits = <<>>
    /\ \E id \in DOMAIN Person :
          /\ <<<<"b">>, id>> \in index
          /\ <<<<"a">>, id>> \notin index
          /\ Person[id].Name = <<"b">>

\* the number an offset or limit parameter stands for
NumOf(s) ==
    CASE s = <<"0">> -> 0 [] s = <<"1">> -> 1 [] s = <<"2">> -> 2
      [] s = <<"2", "0", "1">> -> 201

OffsetOf(query) == IF query.offset = <<>> THEN 0 ELSE NumOf(query.offset)
LimitOf(query) == IF query.limit = <<>> THEN 200 ELSE NumOf(query.limit)

\* the number of persons with a greater id
Above(id) == Cardinality({j \in DOMAIN Person : j > id})

\* the ids at the positions offset+1 .. offset+limit of the table sorted by
\* descending id
PageOf(query) ==
    {id \in DOMAIN Person :
        Above(id) >= OffsetOf(query) /\ Above(id) < OffsetOf(query) + LimitOf(query)}

Min(a, b) == IF a < b THEN a ELSE b
Max(a, b) == IF a < b THEN b ELSE a

\* C25: getAllPersons with order=random returns a permutation of the page the
\* same offset and limit give without it (the same persons, each once, nobody
\* from outside the page), and for a page of n persons each of the n! orders
\* is produced by exactly one sequence of the shuffle's random choices.
C25_RandomPage ==
    (res.op = "getAllPersons" /\ res.status = StatusOK /\ res.old.order = "random")
    => LET list == res.ent.list
           n == Len(list)
           ids == PageOf(res.old)
           page == [k \in 1..n |-> PersonEntity(Person,
                       CHOOSE id \in ids : Cardinality({j \in ids : j > id}) = k - 1)]
           orders == {o \in [1..n -> {page[k] : k \in 1..n}] :
                         \A j, k \in 1..n : o[j] = o[k] => j = k}
       IN  /\ n = Cardinality(ids)
           /\ {list[k].ID : k \in 1..n} = ids
           /\ \A k \in 1..n : list[k] = PersonEntity(Person, list[k].ID)
           /\ \A o \in orders :
                 Cardinality({rs \in Rands(n) : shufflePersons(page, rs) = o}) = 1

\* a shuffled page of two persons that starts after the first person of the
\* table and is not in descending order
C25_Witness ==
    /\ res.op = "getAllPersons"
    /\ res.old.order = "random"
    /\ res.old.offset = <<"1">>
    /\ res.status = StatusOK
    /\ Len(res.ent.list) = 2
    /\ res.ent.list[1].ID < res.ent.list[2].ID

\* C26: getAllPersons(offset, limit) returns 200 and exactly the persons at the
\* positions offset+1 .. offset+limit of the Person table sorted by descending
\* id, min(limit, max(0, N - offset)) of them, offset being 0 and limit 200 when
\* absent; with more than 200 persons and no limit it returns exactly 200.
C26_Page ==
    [][\A proc \in Procs :
          (/\ res'.op = "getAllPersons"
           /\ res'.old.order = ""
           /\ res'.old.offset # <<"x">>
           /\ res'.old.limit # <<"x">>
           /\ getAllPersons(proc, res'.old.offset, res'.old.limit, ""))
          => LET list == res'.ent.list
                 offset == OffsetOf(res'.old)
                 limit == LimitOf(res'.old)
                 N == Cardinality(DOMAIN Person)
             IN  /\ res'.status = StatusOK
                 /\ Len(list) = Min(limit, Max(0, N - offset))
                 /\ \A k \in 1..Len(list) :
                       /\ list[k].ID \in DOMAIN Person
                       /\ Above(list[k].ID) = offset + k - 1
                       /\ list[k] = PersonEntity(Person, list[k].ID)
                 /\ (N - offset > 200 /\ res'.old.limit = <<>>) => Len(list) = 200
      ]_vars

\* more than 200 persons were listed without a limit, and a table with a gap
\* in its ids is in the states
C26_Witness ==
    /\ res.op = "getAllPersons"
    /\ res.old.order = ""
    /\ res.old.limit = <<>>
    /\ res.old.offset = <<>>
    /\ Cardinality(DOMAIN Person) > 200
    /\ Len(res.ent.list) = 200

\* the messages of the responses to a failed store statement
GenericErrors ==
    {"server error: database query failed", "server error: database insert failed"}

\* C27: when a store statement fails inside a handler, the handler returns 500
\* with one of the fixed "server error: ..." messages, has returned (it runs no
\* further statement), and has started no index goroutine; the tables and the
\* index are as they were.
C27_StoreFailure ==
    [][\A proc \in FailProcs :
          StoreFailure(proc)
          => /\ res'.status = StatusInternalServerError
             /\ res'.err \in GenericErrors
             /\ req'[proc].pc = "idle"
             /\ tasks' = tasks
             /\ index' = index
             /\ Department' = Department /\ Person' = Person /\ lastID' = lastID
      ]_vars

\* the update statement of an updatePerson call failed: the person read
\* before is still stored and no goroutine runs
C27_Witness ==
    /\ res.op = "updatePerson"
    /\ res.status = StatusInternalServerError
    /\ res.id \in DOMAIN Person
    /\ tasks = EmptyBag
    /\ \A proc \in Procs : req[proc].pc = "idle"

\* C29: when main has built the index and serves, the index associates every
\* Person of the store, however many there are, with the tokens of its
\* "Name Role Info" text; no request is served before.
C29_RebuiltIndex ==
    /\ main.pc = "serve"
       => \A i \in DOMAIN Person :
             \A t \in Tokens(PersonText(Person[i])) : <<t, i>> \in index
    /\ main.pc # "serve"
       => res = NoRes /\ \A proc \in Procs : req[proc].pc = "idle"

\* C30: when requests are served one at a time, after any sequence of person
\* and department creates, updates and deletes from the empty store, every
\* Person's Dept is the id of a Department in the store and every Person's
\* Name is non-empty after trimming.
C30_SequentialIntegrity ==
    \A i \in DOMAIN Person :
        /\ Person[i].Dept \in DOMAIN Department
        /\ ~Blank(Person[i].Name)

\* a department was deleted while another one has staff
C30_Witness ==
    /\ res.op = "deleteDepartment"
    /\ res.status = StatusNoContent
    /\ Person # <<>>
    /\ \A i \in DOMAIN Person : Person[i].Dept \in DOMAIN Department

\* the tables, the index, the image list and what else a request can change
\* are as they were
NoEffect ==
    /\ Department' = Department /\ Person' = Person /\ lastID' = lastID
    /\ index' = index /\ tasks' = tasks
    /\ imageFiles' = imageFiles /\ files' = files

\* C28: getDepartment, getAllDepartments, getPerson, getAllPersons, getImages
\* and searchPersons leave the Department table, the Person table, the index
\* and the image list unchanged; what getPerson and getAllPersons return is
\* determined by the Person table, whatever the index holds, and what
\* searchPersons returns is determined by the index, whatever the store holds.
C28_ReadsHaveNoEffect ==
    [][\A proc \in FailProcs :
          /\ Reads(proc) => NoEffect
          /\ (res'.op = "getPerson" /\ getPerson(proc, res'.id))
             => IF res'.id \in DOMAIN Person
                THEN res'.status = StatusOK /\ res'.ent = PersonEntity(Person, res'.id)
                ELSE res'.status = StatusNotFound
          /\ (/\ res'.op = "getAllPersons"
              /\ getAllPersons(proc, res'.old.offset, res'.old.limit, res'.old.order))
             => /\ res'.status = StatusOK
                /\ {res'.ent.list[k] : k \in 1..Len(res'.ent.list)}
                      = {PersonEntity(Person, id) : id \in PageOf(res'.old)}
          /\ (res'.op = "searchPersons" /\ searchPersons_Query(proc, res'.old.q))
             => {res'.ent.Hits[k] : k \in 1..Len(res'.ent.Hits)}
                   = Postings(TermsOf(res'.old.q))
      ]_vars

\* the person was read from the store while the index has no posting for it;
\* the image list is not empty
C28_Witness ==
    /\ res.op = "getPerson"
    /\ res.status = StatusOK
    /\ res.id \in DOMAIN Person
    /\ res.id \notin {w[2] : w \in index}
    /\ imageFiles # <<>>

\* C31: whenever updatePerson(id, p) returns 200, its update statement modified
\* one row: right after the statement a Person with that id is in the store and
\* carries p's fields, also when a deletePerson(id) ran between the handler's
\* read of the old record and its update statement; no success is returned and
\* no UnIndex/Index goroutine is started for a person that no longer exists.
C31_UpdateModifiedOneRow ==
    [][(res'.op = "updatePerson" /\ res'.status = StatusOK)
          => /\ res'.id \in DOMAIN Person'
             /\ Person'[res'.id] = PersonRow(res'.ent)
      ]_vars

\* the unindex goroutines of deletePerson(id) that exist
DeleteTasksIn(bag, id) ==
    LET ts == {t \in BagToSet(bag) : t.kind = "delete" /\ t.id = id}
    IN  BagCardinality([t \in ts |-> CopiesIn(t, bag)])

DeleteTasks(id) == DeleteTasksIn(tasks, id)

\* C32: of the concurrent deletePerson(id) calls on one existing person exactly
\* one returns 204 and starts exactly one UnIndex goroutine, every other one
\* returns 404 and starts none; of the concurrent deleteDepartment(id) calls on
\* one deletable department exactly one returns 204. (Ids are never reused: a
\* row that is gone stays gone, so the 204 that removed it is the only one.)
C32_OneDeleteSucceeds ==
    /\ [](\A id \in PathIDs :
             DeleteTasks(id) = IF id = 2 /\ id \notin DOMAIN Person THEN 1 ELSE 0)
    /\ [][/\ ReturnsFrom("deletePerson") =>
                IF res'.status = StatusNoContent
                THEN /\ res'.id \in DOMAIN Person /\ res'.id \notin DOMAIN Person'
                     /\ DeleteTasksIn(tasks', res'.id) = DeleteTasks(res'.id) + 1
                ELSE /\ res'.status = StatusNotFound
                     /\ res'.id \notin DOMAIN Person
                     /\ tasks' = tasks /\ Person' = Person
          /\ (ReturnsFrom("deleteDepartment") /\ res'.status = StatusNoContent) =>
                res'.id \in DOMAIN Department /\ res'.id \notin DOMAIN Department'
          /\ (ReturnsFrom("deleteDepartment") /\ res'.status = StatusNotFound) =>
                res'.id \notin DOMAIN Department /\ Department' = Department
          /\ DOMAIN Person' \subseteq DOMAIN Person
          /\ DOMAIN Department' \subseteq DOMAIN Department
         ]_vars

\* a second deletePerson that found the person and a second deleteDepartment
\* that found the department deletable have returned 404 after the first ones
\* removed the rows
C32_Witness ==
    /\ res.status = StatusNotFound
    /\ res.err \in {"person does not exist", "department does not exist"}
    /\ res.id \in {2, 3}
    /\ 2 \notin DOMAIN Person
    /\ 3 \notin DOMAIN Department
    /\ DeleteTasks(2) = 1

\* the tokens id is indexed under
IndexedUnder(id) == {w[1] : w \in {v \in index : v[2] = id}}

\* C33: every UnIndex(text, id) the person handlers issue is called with
\* exactly the text under which id is indexed at the moment the UnIndex runs,
\* under any interleaving of concurrent creates, updates and deletes of the
\* same person, so that no UnIndex leaves stale postings behind.
C33_UnIndexExactText ==
    [][\A t \in BagToSet(tasks) :
          (t.ops[t.pc + 1].op = "UnIndex" /\ RunTask(t))
          => /\ IndexedUnder(t.id) = Tokens(t.ops[t.pc + 1].text)
             /\ ~\E w \in index' : w[2] = t.id
      ]_vars

\* the goroutine of the updatePerson call that returned last has not returned
UpdateRunning ==
    /\ res.op = "updatePerson"
    /\ res.status = StatusOK
    /\ res.old # NoRow
    /\ \E t \in BagToSet(tasks) : t.kind = "update" /\ t.id = res.id

\* C34: while the goroutine of an update runs, a search never sees zero hits
\* for the person: at every moment between the update statement of
\* updatePerson(id) and the return of its goroutine, id is among the hits of the
\* query for the old name or of the query for the new name.
C34_NeverZeroHits ==
    UpdateRunning
    => \/ res.id \in searchPersons(res.old.Name)
       \/ res.id \in searchPersons(res.ent.Name)

\* C35: getImages returns a consistent snapshot of the image list: the
\* sequence of file names the caller receives, encoded from the returned slice
\* after the handler has released the read lock, is the content the list had
\* at one moment during the call, also when a deleteImage or an upload runs
\* concurrently.
C35_ConsistentSnapshot ==
    res.op = "getImages" => res.ent.list \in res.old.lists

\* the number of entries of list equal to f
Count(list, f) == Cardinality({k \in 1..Len(list) : list[k] = f})

\* C36: uploads append to the image list what they stored: when an upload
\* request has completed, each file the request wrote to disk is in the image
\* list exactly once, and the request has appended no entry for a file it did
\* not write (no empty name when the form held no file or the request was
\* refused, nothing missing when the form held several files).
C36_UploadAppendsWritten ==
    [][ReturnsFrom("uploadHandler")
       => LET written == res'.old.written
              new == SubSeq(imageFiles', Len(imageFiles) + 1, Len(imageFiles'))
          IN  /\ SubSeq(imageFiles', 1, Len(imageFiles)) = imageFiles
              /\ \A k \in 1..Len(written) : Count(imageFiles', written[k]) = 1
              /\ \A k \in 1..Len(new) : Count(written, new[k]) = 1
      ]_vars

\* C37: deleteDepartment checks in a fixed order, staff, then subdepartments,
\* then existence: a department with both staff and subdepartments gets the
\* staff conflict, and an id that is not in the Department table but is the
\* Dept of a Person or the Parent of a Department gets the conflict (400) of
\* that reference, not NotFound.
C37_CheckOrder ==
    [][ReturnsFrom("deleteDepartment")
       => LET id == res'.id
              staff == \E i \in DOMAIN Found.Person : Found.Person[i].Dept = id
              subs == \E i \in DOMAIN Found.Department : Found.Department[i].Parent = id
          IN  IF staff
              THEN /\ res'.status = StatusBadRequest
                   /\ res'.err = "cannot delete department with associated staff"
                   /\ LeavesTables
              ELSE IF subs
              THEN /\ res'.status = StatusBadRequest
                   /\ res'.err = "cannot delete department with subdepartments"
                   /\ LeavesTables
              ELSE IF id \notin DOMAIN Found.Department
              THEN res'.status = StatusNotFound /\ LeavesTables
              ELSE res'.status = StatusNoContent
      ]_vars

\* the staff conflict was returned for an id that is not in the Department
\* table and that is both the Dept of a Person and the Parent of a Department
C37_Witness ==
    /\ res.op = "deleteDepartment"
    /\ res.status = StatusBadRequest
    /\ res.err = "cannot delete department with associated staff"
    /\ res.id \notin DOMAIN Department
    /\ qDeptHasPersons(res.id)
    /\ qDeptHasDept(res.id)

\* C38: updateDepartment never changes the set of department ids in the store:
\* called with a non-blank name on an id that is not in the table it inserts
\* nothing and leaves the Department table as it was, and yet returns 200 with
\* the submitted entity instead of NotFound.
C38_UpdateKeepsIDs ==
    [][/\ ReturnsFrom("updateDepartment")
            => DOMAIN Department' = DOMAIN Department /\ Person' = Person
       /\ \A proc \in SeqProcs, dept \in SeqDepts :
            (/\ res'.op = "updateDepartment"
             /\ ~Blank(dept.Name)
             /\ res'.id \notin DOMAIN Department
             /\ updateDepartment(proc, res'.id, dept))
            => /\ res'.status = StatusOK
               /\ res'.ent = [ID |-> res'.id, Name |-> dept.Name,
                              Parent |-> dept.Parent]
               /\ Department' = Department
      ]_vars

\* an update of an id that is not in the table, other departments being in
\* the store, has returned 200
C38_Witness ==
    /\ res.op = "updateDepartment"
    /\ res.status = StatusOK
    /\ res.id \notin DOMAIN Department
    /\ res.id # 0
    /\ Department # <<>>

\* C39: the Person a successful updatePerson(id, p) returns equals the record
\* stored for id after the update in ID, Name, Dept, Email, Phone, Img, Role
\* and Info; its ID is the id of the request path whatever ID the body carried.
C39_UpdateReturnsStored ==
    [][(ReturnsFrom("updatePerson") /\ res'.status = StatusOK)
          => /\ res'.id \in DOMAIN Person'
             /\ PersonRow(res'.ent) = Person'[res'.id]
             /\ res'.ent.ID = res'.id
      ]_vars

====
